---- MODULE Spec2Model ----
(***************************************************************************)
(* A model of the task-orchestration engine of mcscript                    *)
(* (src/mcscript/task.py, src/mcscript/utils.py): the flag files of the    *)
(* shared flags directory, the lock protocol, task selection, the task     *)
(* executor and the run loops, run by several operating-system processes   *)
(* against one work directory.                                             *)
(*                                                                         *)
(* One step of a process is one access to the shared flags directory (or   *)
(* one purely local stretch of code between two such accesses).            *)
(* seek_task is taken as one step: it only reads.                          *)
(***************************************************************************)
EXTENDS Integers, Sequences, FiniteSets, TLC

(***************************************************************************)
(* Bounds of the model.                                                    *)
(***************************************************************************)
\* number of operating-system processes sharing the work directory
NumProcs == 2
\* length of the task list handed to init()
NumTasks == 2
\* number of phase handlers (and of archive phase handlers)
NumPhases == 2
\* number of init() invocations the processes make in all (one more where
\* a specification says so)
MaxInvocations == 2

\* TaskTimer on its own: longest duration history, and the latest time
MaxTimings == 2
MaxNow == 260

Procs == 1..NumProcs
TaskIndices == 0..(NumTasks - 1)
Phases == 0..(NumPhases - 1)

(***************************************************************************)
(* Values of the program.                                                  *)
(***************************************************************************)
\* Python's None, where an integer is expected (next_index = None)
None == -2
\* the task index "ARCH" of the archive pseudo-task
ARCH == -1
\* Python's None, where a string is expected (strings are sequences of
\* one-character strings, so no string equals it)
NoneStr == <<"None">>
ALL == <<"A", "L", "L">>

\* class TaskMode
kRun == "kRun"
kTOC == "kTOC"
kUnlock == "kUnlock"
kArchive == "kArchive"
kPrerun == "kPrerun"
kOffline == "kOffline"
TaskMode == {kRun, kTOC, kUnlock, kArchive, kPrerun, kOffline}

\* class TaskStatus
kLocked == "L"
kFailed == "F"
kIncomplete == "I"
kDone == "X"
kMasked == "."
kPending == "-"

\* TaskTimer(remaining_time=..., safety_factor=1.1, minimum_time=60):
\* the safety factor as the fraction SafetyNum / SafetyDen
SafetyNum == 11
SafetyDen == 10
minimum_time == 60
\* get_lock: wait_time = 3
wait_time == 3

\* the extensions of the flag files
FlagExt == {"lock", "fail", "incp", "done"}
FlagKeys == (TaskIndices \cup {ARCH}) \X Phases

(***************************************************************************)
(* The inputs the model draws from.                                        *)
(***************************************************************************)
\* the task lists given to init(): for each index the pool, the mask and the
\* descriptor the callbacks task_pool, task_mask and task_descriptor return
TaskLists == { [i \in TaskIndices |-> [pool |-> IF i % 2 = 0 THEN <<"a">> ELSE <<"a", "b">>,
                                       mask |-> TRUE,
                                       descriptor |-> <<"task", ToString(i)>>]] }
\* a list whose last task is masked; a list where the default task_pool
\* callback (None) is left in place for all tasks but the first; a list where
\* the default task_descriptor callback (None for every task) is left in place
MaskedTaskList ==
    [i \in TaskIndices |-> [pool |-> <<"a">>, mask |-> i < NumTasks - 1,
                            descriptor |-> <<"task", ToString(i)>>]]
NonePoolTaskList ==
    [i \in TaskIndices |-> [pool |-> IF i = 0 THEN <<"a">> ELSE NoneStr, mask |-> TRUE,
                            descriptor |-> <<"task", ToString(i)>>]]
DuplicateDescriptorTaskList ==
    [i \in TaskIndices |-> [pool |-> <<"a">>, mask |-> TRUE, descriptor |-> NoneStr]]
\* the environment of an invocation (task_read_env, RunParameters.populate;
\* qsubm sets MCSCRIPT_TASK_REDIRECT=True unless --no-redirect is given):
\* the defaults, and each of pool, count limit and wall time changed in turn
DefaultEnv(mode, phase) ==
    [mode |-> mode, phase |-> phase, pool |-> ALL, start_index |-> 0,
     count_limit |-> -1, remaining_time |-> 1000, redirect |-> TRUE]
RunEnvs(mode) ==
    { DefaultEnv(mode, ph) : ph \in Phases }
    \cup { [DefaultEnv(mode, 0) EXCEPT !.pool = <<"b", ",", "a">>],
           [DefaultEnv(mode, 0) EXCEPT !.count_limit = 1],
           [DefaultEnv(mode, 0) EXCEPT !.count_limit = 0],
           [DefaultEnv(mode, 0) EXCEPT !.remaining_time = 100],
           [DefaultEnv(mode, 0) EXCEPT !.pool = NoneStr],
           [DefaultEnv(mode, 0) EXCEPT !.start_index = 1] }
Envs ==
    RunEnvs(kRun)
    \cup { DefaultEnv(kOffline, ph) : ph \in Phases }
    \cup { DefaultEnv(kPrerun, ph) : ph \in Phases }
    \cup { [DefaultEnv(md, 0) EXCEPT !.pool = NoneStr] : md \in {kOffline, kPrerun} }
    \cup { [DefaultEnv(kPrerun, 0) EXCEPT !.count_limit = 0, !.remaining_time = 0] }
    \cup { DefaultEnv(kArchive, ph) : ph \in Phases }
    \cup { DefaultEnv(kTOC, 0), DefaultEnv(kUnlock, 0) }
\* what a phase handler does: return, raise InsufficientTime, raise another
\* exception
HandlerOutcomes == {"return", "InsufficientTime", "Exception", "KeyboardInterrupt"}
\* seconds a phase handler runs
HandlerTimes == {50}
\* config.job_id() of each process: separate batch jobs
JobIdOf(p) == <<ToString(p)>>

VARIABLES
    task_list,     \* the task list with its metadata (fixed by init)
    flag_dir,      \* the flag files that exist: <<task index, phase, extension>>
    lock_line,     \* first line of each .lock file (<<>> when there is none)
    job_id,        \* parameters.run.job_id of each process
    pc,            \* where each process is in the code
    params,        \* task_parameters and run parameters of the current invocation
    task_index,    \* invoke_tasks_run / invoke_tasks_prerun: task_index
    task_count,    \* invoke_tasks_run: task_count
    timer,         \* invoke_tasks_run: timer (a TaskTimer)
    now,           \* time.time() of each process, seconds since its start
    batch_mode,    \* parameters.run.batch_mode of each process
    unlock_files,  \* task_unlock: flag_files still to remove
    outcome,       \* how the last do_task (or archive handler) of each process ended
    exit,          \* how the last invocation of each process ended:
                   \* <<"return", why>> or <<exception, where it was raised>>
    contenders,    \* history: the processes that had written the same lock file
                   \* and not yet read it back when this process read it back
    invocations,   \* number of invocations made so far
    one_at_a_time, \* the invocations are made one after the other
    cwd,           \* the current working directory of each process
    stdout,        \* sys.stdout of each process
    output_files,  \* the task output files that exist: <<task index, phase>>
    toc,           \* the table of contents written last (the file {run name}.toc)
    toc_tracked,   \* the contents of the toc file are followed
    slurm,         \* the batch job: Slurm's record of it, parameters.run of the
                   \* script it runs, and what the last termination did
    archive,       \* the results directory handed to archive_handler_automagic
                   \* and the archives it made
    start_indices, \* the values of MCSCRIPT_TASK_START_INDEX the invocations use
    output_tracked, \* the task output files are followed
    invocation_limit, \* the invocations that are followed
    seek_calls     \* history: the calls of seek_task that the loop of the current
                   \* invocation of each process has made

vars == <<task_list, flag_dir, lock_line, job_id, pc, params, task_index, task_count,
          timer, now, batch_mode, unlock_files, outcome, exit, contenders,
          invocations, one_at_a_time, cwd, stdout, output_files, toc, toc_tracked,
          slurm, archive, start_indices, output_tracked, invocation_limit, seek_calls>>

\* what no step of a process changes
env_vars == <<one_at_a_time, toc_tracked, slurm, archive, start_indices, output_tracked,
              invocation_limit>>

(***************************************************************************)
(* fnmatch.fnmatchcase, for patterns of literal characters, "*" and "?".   *)
(***************************************************************************)
RECURSIVE fnmatchcase(_, _)
fnmatchcase(name, pat) ==
    IF pat = <<>> THEN name = <<>>
    ELSE IF Head(pat) = "*"
         THEN \/ fnmatchcase(name, Tail(pat))
              \/ name # <<>> /\ fnmatchcase(Tail(name), pat)
    ELSE IF name = <<>> THEN FALSE
    ELSE IF Head(pat) = "?" THEN fnmatchcase(Tail(name), Tail(pat))
    ELSE Head(pat) = Head(name) /\ fnmatchcase(Tail(name), Tail(pat))

\* str.split(","): the sequence of the comma-delimited pieces
RECURSIVE split(_)
split(s) ==
    IF \A k \in 1..Len(s) : s[k] # ","
    THEN <<s>>
    ELSE LET k == CHOOSE j \in 1..Len(s) : s[j] = "," /\ \A m \in 1..(j - 1) : s[m] # ","
         IN <<SubSeq(s, 1, k - 1)>> \o split(SubSeq(s, k + 1, Len(s)))

\* match_pool raises instead of returning: None.split (AttributeError), or
\* fnmatchcase of a None pool (TypeError)
match_pool_raises(pool, patterns) ==
    /\ ~(patterns = NoneStr /\ pool = NoneStr)
    /\ patterns # ALL
    /\ (patterns = NoneStr \/ pool = NoneStr)

\* match_pool, where it returns
match_pool(pool, patterns) ==
    IF patterns = NoneStr /\ pool = NoneStr THEN TRUE
    ELSE IF patterns = ALL THEN TRUE
    ELSE LET pattern_list == split(patterns)
         IN \E k \in 1..Len(pattern_list) : fnmatchcase(pool, pattern_list[k])

(***************************************************************************)
(* Flag store: status.                                                     *)
(***************************************************************************)
exists(dir, idx, phase, ext) == <<idx, phase, ext>> \in dir

\* a task_status without the test of the mask
task_status_in_mask_ignored(dir, idx, phase, mask) ==
    IF exists(dir, idx, phase, "lock") THEN kLocked
    ELSE IF exists(dir, idx, phase, "fail") THEN kFailed
    ELSE IF exists(dir, idx, phase, "incp") THEN kIncomplete
    ELSE IF exists(dir, idx, phase, "done") THEN kDone
    ELSE kPending

\* task_status(task_index, task_phase, task_mask), read from the directory dir
task_status_in(dir, idx, phase, mask) ==
    IF exists(dir, idx, phase, "lock") THEN kLocked
    ELSE IF exists(dir, idx, phase, "fail") THEN kFailed
    ELSE IF exists(dir, idx, phase, "incp") THEN kIncomplete
    ELSE IF exists(dir, idx, phase, "done") THEN kDone
    ELSE IF ~mask THEN kMasked
    ELSE kPending

task_status(idx, phase, mask) == task_status_in(flag_dir, idx, phase, mask)

\* index_str: an int as %04d, another index (ARCH) as the string it is
index_str(idx) ==
    IF idx = ARCH THEN <<"A", "R", "C", "H">>
    ELSE <<ToString(idx \div 1000), ToString((idx \div 100) % 10),
           ToString((idx \div 10) % 10), ToString(idx % 10)>>

\* task_flag_base: "task-{:s}-{:d}"
task_flag_base(idx, phase) == <<"t", "a", "s", "k", "-">> \o index_str(idx) \o <<"-", ToString(phase)>>

\* os.listdir(flag_dir): the names of the flag files
listdir(dir) == { task_flag_base(f[1], f[2]) \o <<".", f[3]>> : f \in dir }

\* a task_status that looks for the .done file first
task_status_listed_done_first(idx, phase, mask, flag_dir_list) ==
    LET flag_base == task_flag_base(idx, phase)
    IN IF (flag_base \o <<".", "done">>) \in flag_dir_list THEN kDone
       ELSE IF (flag_base \o <<".", "lock">>) \in flag_dir_list THEN kLocked
       ELSE IF (flag_base \o <<".", "fail">>) \in flag_dir_list THEN kFailed
       ELSE IF (flag_base \o <<".", "incp">>) \in flag_dir_list THEN kIncomplete
       ELSE IF ~mask THEN kMasked
       ELSE kPending

\* task_status(task_index, task_phase, task_mask, flag_dir_list) with a
\* directory listing (as task_toc calls it)
task_status_listed(idx, phase, mask, flag_dir_list) ==
    LET flag_base == task_flag_base(idx, phase)
    IN IF (flag_base \o <<".", "lock">>) \in flag_dir_list THEN kLocked
       ELSE IF (flag_base \o <<".", "fail">>) \in flag_dir_list THEN kFailed
       ELSE IF (flag_base \o <<".", "incp">>) \in flag_dir_list THEN kIncomplete
       ELSE IF (flag_base \o <<".", "done">>) \in flag_dir_list THEN kDone
       ELSE IF ~mask THEN kMasked
       ELSE kPending

(***************************************************************************)
(* Task selector.                                                          *)
(***************************************************************************)
\* a seek_task that takes up failed tasks again
seekable_and_failed == {kPending, kIncomplete, kFailed}

\* a seek_task that takes up pending tasks only
seekable_pending_only == {kPending}

\* the statuses seek_task does not skip
seekable == {kPending, kIncomplete}

\* seek_from without the test of the prior phase
RECURSIVE seek_from_no_prerequisite(_, _, _, _, _)
seek_from_no_prerequisite(dir, tl, pool, phase, idx) ==
    IF idx >= NumTasks THEN None
    ELSE IF ~match_pool(tl[idx].pool, pool)
         THEN seek_from_no_prerequisite(dir, tl, pool, phase, idx + 1)
    ELSE IF task_status_in(dir, idx, phase, tl[idx].mask) \notin seekable
         THEN seek_from_no_prerequisite(dir, tl, pool, phase, idx + 1)
    ELSE idx

\* the loop of seek_task, from index idx on: the first index that is not
\* skipped, or None
RECURSIVE seek_from(_, _, _, _, _)
seek_from(dir, tl, pool, phase, idx) ==
    IF idx >= NumTasks THEN None
    ELSE IF ~match_pool(tl[idx].pool, pool)
         THEN seek_from(dir, tl, pool, phase, idx + 1)
    ELSE IF task_status_in(dir, idx, phase, tl[idx].mask) \notin seekable
         THEN seek_from(dir, tl, pool, phase, idx + 1)
    ELSE IF phase > 0 /\ task_status_in(dir, idx, phase - 1, tl[idx].mask) # kDone
         THEN seek_from(dir, tl, pool, phase, idx + 1)
    ELSE idx

\* a seek_task that scans the list from its start
seek_task_from_start(tl, pool, phase, prior) == seek_from(flag_dir, tl, pool, phase, 0)

\* a seek_task whose range starts one index late
seek_task_late(tl, pool, phase, prior) == seek_from(flag_dir, tl, pool, phase, prior + 2)

\* seek_task(task_list, task_pool, task_phase, prior_task_index)
seek_task(tl, pool, phase, prior) == seek_from(flag_dir, tl, pool, phase, prior + 1)

\* seek_task ends in the exception of match_pool: some index it reaches
\* before it finds a task makes match_pool raise
seek_task_raises(tl, pool, phase, prior) ==
    \E j \in TaskIndices :
        /\ j > prior
        /\ match_pool_raises(tl[j].pool, pool)
        /\ \A k \in TaskIndices : (prior < k /\ k < j) => ~match_pool_raises(tl[k].pool, pool)
        /\ LET found == seek_task(tl, pool, phase, prior)
           IN found = None \/ found > j

(***************************************************************************)
(* utils.TaskTimer.  A timer is [end_time, timings, task_start_time]; the   *)
(* time now is an argument.  Times are whole seconds.                       *)
(***************************************************************************)
RECURSIVE sum(_)
sum(s) == IF s = <<>> THEN 0 ELSE Head(s) + sum(Tail(s))

\* TaskTimer.__init__ (start_time = t)
TaskTimer(remaining, t) ==
    [end_time |-> remaining + t, timings |-> <<>>, task_start_time |-> None]

\* TaskTimer.remaining_time
remaining_time(tm, t) == IF tm.end_time - t > 0 THEN tm.end_time - t ELSE 0

\* TaskTimer.last_time
last_time(tm) == IF Len(tm.timings) = 0 THEN 0 ELSE tm.timings[Len(tm.timings)]

\* a start_timer without the gate
insufficient_time_never(tm, t) == FALSE

\* a required_time that leaves out last_time
insufficient_time_average_only(tm, t) ==
    LET rem == remaining_time(tm, t)
        n == Len(tm.timings)
    IN \/ n > 0 /\ SafetyNum * sum(tm.timings) > SafetyDen * n * rem
       \/ minimum_time > rem

\* required_time > remaining_time, with required_time the largest of
\* average_time * 1.1, last_time * 1.1 and minimum_time (compared without
\* dividing)
insufficient_time(tm, t) ==
    LET rem == remaining_time(tm, t)
        n == Len(tm.timings)
    IN \/ n > 0 /\ SafetyNum * sum(tm.timings) > SafetyDen * n * rem
       \/ SafetyNum * last_time(tm) > SafetyDen * rem
       \/ minimum_time > rem

\* stop_timer: the timer after it
stop_timer(tm, t) ==
    [tm EXCEPT !.timings = Append(@, t - tm.task_start_time), !.task_start_time = None]

\* cancel_timer that records the time like stop_timer
cancel_timer_recording(tm) ==
    [tm EXCEPT !.timings = Append(@, wait_time), !.task_start_time = None]

\* cancel_timer: the timer after it
cancel_timer(tm) == [tm EXCEPT !.task_start_time = None]

(***************************************************************************)
(* Flag store: the file operations.                                        *)
(***************************************************************************)
\* the text written in append mode lands on the first line of the file while
\* that line has no newline yet: the first line after appending text
append_line(line, text) ==
    IF line # <<>> /\ line[Len(line)] = "\n" THEN line
    ELSE LET k == CHOOSE j \in 1..Len(text) : text[j] = "\n" /\ \A m \in 1..(j - 1) : text[m] # "\n"
         IN line \o SubSeq(text, 1, k)

\* os.rename(flag_base+".lock", flag_base+"."+ext): the directory after it
\* (the lock file exists)
rename_lock(dir, idx, phase, ext) ==
    (dir \ {<<idx, phase, "lock">>}) \cup {<<idx, phase, ext>>}

(***************************************************************************)
(* The table of contents.                                                  *)
(***************************************************************************)
\* what time.asctime() gives when a table is generated
TocTimes == {1, 2}

\* a table of contents that lists the tasks last to first
task_toc_reversed(tl, flag_dir_list, asctime) ==
    [time |-> asctime, phases |-> NumPhases, tasks |-> NumTasks,
     lines |-> [k \in 1..NumTasks |->
                   <<index_str(NumTasks - k), tl[NumTasks - k].pool,
                     [ph \in Phases |-> task_status_listed(NumTasks - k, ph, tl[NumTasks - k].mask,
                                                          flag_dir_list)],
                     tl[NumTasks - k].descriptor>>]]

\* task_toc, given the listing of the flag directory and the time: the
\* timestamp line, "Phases:", "Tasks:", and for each task in the order of
\* the list the fields of its line: index, pool, the status at each phase,
\* descriptor
task_toc(tl, flag_dir_list, asctime) ==
    [time |-> asctime, phases |-> NumPhases, tasks |-> NumTasks,
     lines |-> [k \in 1..NumTasks |->
                   <<index_str(k - 1), tl[k - 1].pool,
                     [ph \in Phases |-> task_status_listed(k - 1, ph, tl[k - 1].mask,
                                                          flag_dir_list)],
                     tl[k - 1].descriptor>>]]

(***************************************************************************)
(* The directory and the output stream of a process.                        *)
(***************************************************************************)
\* task_root_dir = parameters.run.work_dir, where control.init leaves the
\* process
task_root_dir == <<"work_dir">>
\* do_task: os.path.join(task_root_dir, "task-{:04d}.dir".format(task_index))
task_dir(idx) == task_root_dir \o <<"/", "t", "a", "s", "k", "-">> \o index_str(idx) \o <<".", "d", "i", "r">>
\* the stream sys.stdout is when the process starts
saved_stdout == <<"sys.stdout">>
\* task_output_filename: output_dir/task-{:s}-{:d}.out
task_output_filename(idx, ph) == <<"output_dir", "/">> \o task_flag_base(idx, ph) \o <<".", "out">>
\* do_archive: archive_dir/{run name}-archive-{date tag}.out
archive_output_filename == <<"archive_dir", "/", "archive", ".", "out">>

(***************************************************************************)
(* The initial state: an empty flags directory, no process started.         *)
(***************************************************************************)
\* no batch job is followed
SlurmOff == [pc |-> "off"]
\* no archive handler is followed
ArchiveOff == [pc |-> "off"]

InitProcs ==
    /\ pc = [p \in Procs |-> "idle"]
    /\ params = [p \in Procs |-> DefaultEnv(kTOC, 0)]
    /\ task_index = [p \in Procs |-> None]
    /\ task_count = [p \in Procs |-> 0]
    /\ timer = [p \in Procs |-> TaskTimer(0, 0)]
    /\ now = [p \in Procs |-> 0]
    /\ unlock_files = [p \in Procs |-> {}]
    /\ outcome = [p \in Procs |-> "none"]
    /\ exit = [p \in Procs |-> <<"none", "">>]
    /\ contenders = [p \in Procs |-> {}]
    /\ invocations = 0
    /\ cwd = [p \in Procs |-> task_root_dir]
    /\ stdout = [p \in Procs |-> saved_stdout]
    /\ output_files = {}
    /\ seek_calls = [p \in Procs |-> 0]

Init ==
    /\ toc = <<>>
    /\ slurm = SlurmOff
    /\ archive = ArchiveOff
    /\ toc_tracked = FALSE
    /\ start_indices = {0}
    /\ output_tracked = FALSE
    /\ invocation_limit = MaxInvocations
    /\ task_list \in TaskLists
    /\ flag_dir = {}
    /\ lock_line = [k \in FlagKeys |-> <<>>]
    /\ job_id = [p \in Procs |-> JobIdOf(p)]
    /\ batch_mode = [p \in Procs |-> TRUE]
    /\ one_at_a_time = FALSE
    /\ InitProcs

\* the invocation of process p ends: init() returns ("return") or an
\* exception leaves it; the locals of the run loop are gone
Exit(p, how, where) ==
    /\ pc' = [pc EXCEPT ![p] = "idle"]
    /\ exit' = [exit EXCEPT ![p] = <<how, where>>]
    /\ contenders' = [contenders EXCEPT ![p] = {}]
    /\ timer' = [timer EXCEPT ![p] = TaskTimer(0, 0)]
    /\ task_count' = [task_count EXCEPT ![p] = 0]
    /\ now' = [now EXCEPT ![p] = 0]
    /\ seek_calls' = [seek_calls EXCEPT ![p] = 0]

\* process p goes on to the step at label, t seconds later
Goto(p, label, t) ==
    /\ pc' = [pc EXCEPT ![p] = label]
    /\ now' = [now EXCEPT ![p] = @ + t]
    /\ UNCHANGED exit
    /\ contenders' = [contenders EXCEPT ![p] = IF label \in {"get_lock_extend", "get_lock_incp",
                                                             "get_lock_remove", "in_handler"}
                                                THEN @ ELSE {}]
    \* from the top of a loop the process goes on when seek_task has returned
    /\ seek_calls' = [seek_calls EXCEPT ![p] = IF pc[p] \in {"run_loop", "prerun_loop"}
                                                THEN @ + 1 ELSE @]

phase(p) == params[p].phase
mode(p) == params[p].mode

\* what precedes the call of the handler.  do_task: os.chdir(task_dir) and,
\* outside prerun mode and if redirect is set, sys.stdout = open(output
\* file); do_archive: sys.stdout = open(output file)
EnterHandler(p, idx) ==
    IF mode(p) = kArchive
    THEN /\ stdout' = [stdout EXCEPT ![p] = archive_output_filename]
         /\ UNCHANGED <<cwd, output_files>>
    ELSE /\ cwd' = [cwd EXCEPT ![p] = task_dir(idx)]
         /\ stdout' = [stdout EXCEPT ![p] = IF mode(p) # kPrerun /\ params[p].redirect
                                            THEN task_output_filename(idx, phase(p))
                                            ELSE @]
         \* "purge any old file", then open(output_filename, "w")
         /\ output_files' = IF mode(p) = kPrerun \/ ~output_tracked THEN output_files
                            ELSE IF params[p].redirect
                            THEN output_files \cup {<<idx, phase(p)>>}
                            ELSE output_files \ {<<idx, phase(p)>>}

(***************************************************************************)
(* init and task_master: one invocation starts.                            *)
(***************************************************************************)
\* task_unlock with the glob "task*.*"
unlock_glob_any(dir) == dir

\* a task_unlock whose second glob is left out
task_unlock_files_lock_only(dir, lock_types) ==
    { f \in dir : kLocked \in lock_types /\ f[3] = "lock" }

\* task_unlock(lock_types): flag_files, what the globs "task*.lock" (if
\* kLocked is among lock_types) and "task*.fail" (if kFailed is) list
task_unlock_files(dir, lock_types) ==
    { f \in dir : \/ kLocked \in lock_types /\ f[3] = "lock"
                  \/ kFailed \in lock_types /\ f[3] = "fail" }

\* task_unlock(lock_types) run from the directory dir with no other process
\* at work: every listed file is removed
task_unlock_alone(dir, lock_types) == dir \ task_unlock_files(dir, lock_types)

\* task_unlock: the files listed with the default lock_types
unlock_glob(dir) == task_unlock_files(dir, {kLocked, kFailed})

\* an init without the check for duplicate task descriptors
has_duplicate_descriptor_unchecked(tl) == FALSE

\* init, "check for duplicate task descriptors": some task's descriptor is
\* already in task_descriptor_set when the loop comes to it
has_duplicate_descriptor(tl) ==
    \E i, j \in TaskIndices : i < j /\ tl[i].descriptor = tl[j].descriptor

\* a check for the pool made in run mode only
pool_unset_run_only(env) ==
    env.mode = kRun /\ env.pool = NoneStr

\* task_master, "check that pool defined": in run, prerun and offline mode a
\* pool of None ends the invocation
pool_unset(env) ==
    env.mode \in {kRun, kPrerun, kOffline} /\ env.pool = NoneStr

Invoke(p) ==
    /\ pc[p] = "idle"
    /\ invocations < invocation_limit
    /\ one_at_a_time => \A q \in Procs \ {p} : pc[q] = "idle"
    /\ \E env \in Envs :
        /\ env.start_index \in start_indices
        /\ params' = [params EXCEPT ![p] = env]
        /\ invocations' = invocations + 1
        /\ outcome' = [outcome EXCEPT ![p] = "none"]
        /\ cwd' = [cwd EXCEPT ![p] = task_root_dir]
        /\ stdout' = [stdout EXCEPT ![p] = saved_stdout]
        /\ IF toc_tracked /\ ~has_duplicate_descriptor(task_list) /\ env.mode \in {kTOC, kArchive}
           THEN \* write_toc
                \E t \in TocTimes : toc' = task_toc(task_list, listdir(flag_dir), t)
           ELSE UNCHANGED toc
        /\ IF has_duplicate_descriptor(task_list)
           THEN \* "duplicate task descriptor: ..."
                /\ Exit(p, "ScriptError", "init")
                /\ task_index' = [task_index EXCEPT ![p] = None]
                /\ unlock_files' = [unlock_files EXCEPT ![p] = {}]
           ELSE IF pool_unset(env)
           THEN \* "Exiting without doing anything, since no pool specified."
                /\ Exit(p, "return", "no_pool")
                /\ task_index' = [task_index EXCEPT ![p] = None]
                /\ unlock_files' = [unlock_files EXCEPT ![p] = {}]
           ELSE IF env.mode = kTOC
           THEN /\ Exit(p, "return", "toc")
                /\ task_index' = [task_index EXCEPT ![p] = None]
                /\ unlock_files' = [unlock_files EXCEPT ![p] = {}]
           ELSE IF env.mode = kUnlock
           THEN /\ unlock_files' = [unlock_files EXCEPT ![p] = unlock_glob(flag_dir)]
                /\ task_index' = [task_index EXCEPT ![p] = None]
                /\ IF unlock_glob(flag_dir) = {}
                   THEN Exit(p, "return", "unlock")
                   ELSE /\ pc' = [pc EXCEPT ![p] = "task_unlock"]
                        /\ exit' = [exit EXCEPT ![p] = <<"running", "">>]
                        /\ UNCHANGED <<contenders, seek_calls>>
                        /\ UNCHANGED <<timer, task_count, now>>
           ELSE IF env.mode = kArchive
           THEN /\ task_index' = [task_index EXCEPT ![p] = ARCH]
                /\ unlock_files' = [unlock_files EXCEPT ![p] = {}]
                /\ pc' = [pc EXCEPT ![p] = "get_lock"]
                /\ exit' = [exit EXCEPT ![p] = <<"running", "">>]
                /\ UNCHANGED <<contenders, seek_calls>>
                /\ UNCHANGED <<timer, task_count, now>>
           ELSE IF env.mode = kPrerun
           THEN /\ task_index' = [task_index EXCEPT ![p] = -1]
                /\ unlock_files' = [unlock_files EXCEPT ![p] = {}]
                /\ pc' = [pc EXCEPT ![p] = "prerun_loop"]
                /\ exit' = [exit EXCEPT ![p] = <<"running", "">>]
                /\ UNCHANGED <<contenders, seek_calls>>
                /\ UNCHANGED <<timer, task_count, now>>
           ELSE /\ task_index' = [task_index EXCEPT ![p] = env.start_index - 1]
                /\ task_count' = [task_count EXCEPT ![p] = 0]
                /\ timer' = [timer EXCEPT ![p] = TaskTimer(env.remaining_time, now[p])]
                /\ unlock_files' = [unlock_files EXCEPT ![p] = {}]
                /\ pc' = [pc EXCEPT ![p] = "run_loop"]
                /\ exit' = [exit EXCEPT ![p] = <<"running", "">>]
                /\ UNCHANGED <<contenders, seek_calls>>
                /\ UNCHANGED now
    /\ UNCHANGED <<task_list, flag_dir, lock_line, job_id, batch_mode, env_vars, output_files>>

\* task_unlock: os.remove of one of the listed files
UnlockRemove(p) ==
    /\ pc[p] = "task_unlock"
    /\ \E f \in unlock_files[p] :
        IF f \in flag_dir
        THEN /\ flag_dir' = flag_dir \ {f}
             /\ lock_line' = IF f[3] = "lock"
                             THEN [lock_line EXCEPT ![<<f[1], f[2]>>] = <<>>]
                             ELSE lock_line
             /\ unlock_files' = [unlock_files EXCEPT ![p] = @ \ {f}]
             /\ IF unlock_files[p] = {f}
                THEN Exit(p, "return", "unlock")
                ELSE Goto(p, "task_unlock", 0) /\ UNCHANGED <<timer, task_count>>
        ELSE /\ Exit(p, "FileNotFoundError", "task_unlock")
             /\ unlock_files' = [unlock_files EXCEPT ![p] = {}]
             /\ UNCHANGED <<flag_dir, lock_line>>
    /\ UNCHANGED <<task_list, job_id, batch_mode, params, task_index, outcome, invocations,
                   env_vars, cwd, stdout, output_files, toc>>

(***************************************************************************)
(* invoke_tasks_run: the top of the loop, up to the call of do_task.        *)
(***************************************************************************)
\* a count limit that lets one more task through
within_count_limit_inclusive(limit, count) == limit = -1 \/ count <= limit

\* "check limits": (task_count_limit == -1) or (task_count < task_count_limit)
within_count_limit(limit, count) == limit = -1 \/ count < limit

RunLoop(p) ==
    /\ pc[p] = "run_loop"
    /\ LET limit == params[p].count_limit
           found == seek_task(task_list, params[p].pool, phase(p), task_index[p])
       IN IF ~within_count_limit(limit, task_count[p])
          THEN \* "Reached task count limit."
               /\ Exit(p, "return", "count_limit")
               /\ UNCHANGED task_index
          ELSE IF seek_task_raises(task_list, params[p].pool, phase(p), task_index[p])
          THEN /\ Exit(p, "TypeError", "match_pool")
               /\ UNCHANGED task_index
          ELSE IF found = None
          THEN \* "No more available tasks in pool"
               /\ Exit(p, "return", "no_more_tasks")
               /\ task_index' = [task_index EXCEPT ![p] = None]
          ELSE IF insufficient_time(timer[p], now[p])
          THEN \* "Reached time limit."
               /\ Exit(p, "return", "time_limit")
               /\ task_index' = [task_index EXCEPT ![p] = found]
          ELSE IF timer[p].task_start_time # None
          THEN /\ Exit(p, "RuntimeError", "start_timer")
               /\ task_index' = [task_index EXCEPT ![p] = found]
          ELSE /\ timer' = [timer EXCEPT ![p].task_start_time = now[p]]
               /\ task_index' = [task_index EXCEPT ![p] = found]
               /\ Goto(p, "get_lock", 0)
               /\ UNCHANGED task_count
    /\ UNCHANGED <<task_list, flag_dir, lock_line, job_id, batch_mode, params,
                   unlock_files, outcome, invocations,
                   env_vars, cwd, stdout, output_files, toc>>

(***************************************************************************)
(* invoke_tasks_prerun: the loop, up to the call of the handler (do_task    *)
(* takes no lock in prerun mode).                                           *)
(***************************************************************************)
\* a do_task that takes the lock in every mode
takes_lock_always(md) == TRUE

\* do_task, "get lock": if task_mode != TaskMode.kPrerun
takes_lock(md) == md # kPrerun

PrerunLoop(p) ==
    /\ pc[p] = "prerun_loop"
    /\ LET found == seek_task(task_list, params[p].pool, phase(p), task_index[p])
       IN IF seek_task_raises(task_list, params[p].pool, phase(p), task_index[p])
          THEN /\ Exit(p, "TypeError", "match_pool")
               /\ UNCHANGED <<task_index, cwd, stdout, output_files>>
          ELSE IF found = None
          THEN /\ Exit(p, "return", "no_more_tasks")
               /\ task_index' = [task_index EXCEPT ![p] = None]
               /\ UNCHANGED <<cwd, stdout, output_files>>
          ELSE /\ task_index' = [task_index EXCEPT ![p] = found]
               /\ IF takes_lock(mode(p))
                  THEN Goto(p, "get_lock", 0) /\ UNCHANGED <<cwd, stdout, output_files>>
                  ELSE Goto(p, "in_handler", 0) /\ EnterHandler(p, found)
               /\ UNCHANGED <<timer, task_count>>
    /\ UNCHANGED <<task_list, flag_dir, lock_line, job_id, batch_mode, params,
                   unlock_files, outcome, invocations,
                   env_vars, toc>>

(***************************************************************************)
(* get_lock, called by do_task and by do_archive.                           *)
(***************************************************************************)
\* get_lock without the comparison (as it is outside batch mode)
lock_is_mine_unchecked(line, id) == TRUE

\* get_lock with the comparison turned around
lock_is_mine_inverted(line, id) == line # id

\* line == parameters.run.job_id
lock_is_mine(line, id) == line = id

\* a run loop with "except Exception:" around do_task
caught_by_run_loop_any(exc) == TRUE

\* invoke_tasks_run: "except exception.LockContention:" is the one handler
\* around do_task
caught_by_run_loop(exc) == exc = "LockContention"

\* the exception exc leaves do_task (or do_archive) t seconds later: the run
\* loop catches it, cancels the timer and goes to its next iteration, or the
\* exception leaves the invocation
Raise(p, exc, where, t) ==
    IF mode(p) \in {kRun, kOffline} /\ caught_by_run_loop(exc)
    THEN /\ timer' = [timer EXCEPT ![p] = cancel_timer(@)]
         /\ Goto(p, "run_loop", t)
         /\ UNCHANGED task_count
    ELSE Exit(p, exc, where)

\* do_task with "except Exception:" as its second handler
after_raise_except_Exception(md, out) ==
    IF md # kRun THEN "raise"
    ELSE IF out = "InsufficientTime" THEN "incomplete_lock"
    ELSE IF out = "Exception" THEN "fail_lock"
    ELSE "raise"

\* do_task, the handlers around the phase handler: "except
\* exception.InsufficientTime" and "except BaseException" convert the lock in
\* run mode only, and both re-raise
after_raise(md, out) ==
    IF md # kRun THEN "raise"
    ELSE IF out = "InsufficientTime" THEN "incomplete_lock"
    ELSE "fail_lock"

\* a yield that raises (ScriptError("Yielding lock to other instance"))
Yield_raising(p) ==
    /\ Exit(p, "ScriptError", "get_lock")
    /\ UNCHANGED outcome

\* get_lock returns False to do_task: do_task raises LockContention,
\* invoke_tasks_run catches it ("(Task yielded)"), cancels the timer and goes
\* to its next iteration
Yield(p) ==
    /\ outcome' = [outcome EXCEPT ![p] = "LockContention"]
    /\ Raise(p, "LockContention", "do_task", wait_time)

\* the preliminary lock: open(flag_base+".lock", "w"), write the job id
GetLockWrite(p) ==
    /\ pc[p] = "get_lock"
    /\ flag_dir' = flag_dir \cup {<<task_index[p], phase(p), "lock">>}
    /\ lock_line' = [lock_line EXCEPT ![<<task_index[p], phase(p)>>] = job_id[p]]
    /\ Goto(p, IF batch_mode[p] THEN "get_lock_check" ELSE "get_lock_extend", 0)
    /\ UNCHANGED <<task_list, job_id, batch_mode, params, task_index, task_count, timer,
                   unlock_files, outcome, invocations,
                   env_vars, cwd, stdout, output_files, toc>>

\* batch mode: after the sleep, read the first line back and compare.  On a
\* clash get_lock returns False: do_task yields; do_archive ignores the
\* value and goes on to its handler.
GetLockCheck(p) ==
    /\ pc[p] = "get_lock_check"
    /\ IF <<task_index[p], phase(p), "lock">> \notin flag_dir
       THEN Exit(p, "FileNotFoundError", "get_lock") /\ UNCHANGED <<outcome, cwd, stdout, output_files>>
       ELSE IF lock_is_mine(lock_line[<<task_index[p], phase(p)>>], job_id[p])
       THEN \* "Lock was apparently successful..."
            /\ pc' = [pc EXCEPT ![p] = "get_lock_extend"]
            /\ now' = [now EXCEPT ![p] = @ + wait_time]
            /\ contenders' = [contenders EXCEPT ![p] =
                    { q \in Procs \ {p} : /\ pc[q] = "get_lock_check"
                                          /\ task_index[q] = task_index[p]
                                          /\ phase(q) = phase(p) }]
            /\ UNCHANGED <<timer, task_count, outcome, exit, cwd, stdout, output_files, seek_calls>>
       ELSE IF mode(p) = kArchive
       THEN /\ Goto(p, "in_handler", wait_time)
            /\ EnterHandler(p, task_index[p])
            /\ UNCHANGED <<timer, task_count, outcome>>
       ELSE Yield(p) /\ UNCHANGED <<cwd, stdout, output_files>>
    /\ UNCHANGED <<task_list, flag_dir, lock_line, job_id, batch_mode, params, task_index,
                   unlock_files, invocations,
                   env_vars, toc>>

\* write expanded lock contents: open(flag_base+".lock", "a") creates the
\* file when it is gone
GetLockExtend(p) ==
    /\ pc[p] = "get_lock_extend"
    /\ flag_dir' = flag_dir \cup {<<task_index[p], phase(p), "lock">>}
    /\ lock_line' = [lock_line EXCEPT ![<<task_index[p], phase(p)>>] =
                        append_line(@, <<"\n", "flag_base", "\n", "asctime", "\n">>)]
    /\ Goto(p, "get_lock_incp", 0)
    /\ UNCHANGED <<task_list, job_id, batch_mode, params, task_index, task_count, timer,
                   unlock_files, outcome, invocations,
                   env_vars, cwd, stdout, output_files, toc>>

\* os.path.exists(flag_base+".incp"); without the file get_lock returns True
\* and the caller goes on to the handler
GetLockIncp(p) ==
    /\ pc[p] = "get_lock_incp"
    /\ IF <<task_index[p], phase(p), "incp">> \in flag_dir
       THEN Goto(p, "get_lock_remove", 0) /\ UNCHANGED <<cwd, stdout, output_files>>
       ELSE Goto(p, "in_handler", 0) /\ EnterHandler(p, task_index[p])
    /\ UNCHANGED <<task_list, flag_dir, lock_line, job_id, batch_mode, params, task_index,
                   task_count, timer, unlock_files, outcome, invocations,
                   env_vars, toc>>

\* os.remove(flag_base+".incp"), then get_lock returns True
GetLockRemove(p) ==
    /\ pc[p] = "get_lock_remove"
    /\ IF <<task_index[p], phase(p), "incp">> \in flag_dir
       THEN /\ flag_dir' = flag_dir \ {<<task_index[p], phase(p), "incp">>}
            /\ Goto(p, "in_handler", 0)
            /\ EnterHandler(p, task_index[p])
            /\ UNCHANGED <<timer, task_count>>
       ELSE /\ Exit(p, "FileNotFoundError", "get_lock")
            /\ UNCHANGED <<flag_dir, cwd, stdout, output_files>>
    /\ UNCHANGED <<task_list, lock_line, job_id, batch_mode, params, task_index,
                   unlock_files, outcome, invocations,
                   env_vars, toc>>

(***************************************************************************)
(* do_task and do_archive: the handler and what follows it.                 *)
(***************************************************************************)
\* the handler called at pc "in_handler" ends.  do_task: a normal return
\* leads to finalize_lock (not in prerun mode); an exception is re-raised,
\* in run mode after incomplete_lock or fail_lock.  do_archive catches
\* nothing.
HandlerEnd(p) ==
    /\ pc[p] = "in_handler"
    /\ \E out \in HandlerOutcomes, d \in HandlerTimes :
        /\ outcome' = [outcome EXCEPT ![p] = out]
        /\ IF out = "return"
           THEN IF mode(p) = kPrerun
                THEN \* do_task: os.chdir(task_root_dir)
                     /\ Goto(p, "prerun_loop", d)
                     /\ cwd' = [cwd EXCEPT ![p] = task_root_dir]
                     /\ UNCHANGED <<timer, task_count, stdout, output_files>>
                ELSE \* "undo output redirection" (do_task: if redirect)
                     /\ Goto(p, "finalize_lock", d)
                     /\ stdout' = [stdout EXCEPT ![p] = IF mode(p) = kArchive \/ params[p].redirect
                                                        THEN saved_stdout ELSE @]
                     /\ UNCHANGED <<timer, task_count, cwd, output_files>>
           ELSE IF after_raise(mode(p), out) # "raise"
           THEN /\ Goto(p, after_raise(mode(p), out), d)
                /\ UNCHANGED <<timer, task_count, cwd, stdout, output_files>>
           ELSE Raise(p, out, "handler", d) /\ UNCHANGED <<cwd, stdout, output_files>>
    /\ UNCHANGED <<task_list, flag_dir, lock_line, job_id, batch_mode, params, task_index,
                   unlock_files, invocations,
                   env_vars, toc>>

\* incomplete_lock: os.rename(flag_base+".lock", flag_base+".incp"); then
\* do_task re-raises InsufficientTime, which nothing above it catches
IncompleteLock(p) ==
    /\ pc[p] = "incomplete_lock"
    /\ IF <<task_index[p], phase(p), "lock">> \in flag_dir
       THEN /\ flag_dir' = rename_lock(flag_dir, task_index[p], phase(p), "incp")
            /\ lock_line' = [lock_line EXCEPT ![<<task_index[p], phase(p)>>] = <<>>]
            /\ Raise(p, outcome[p], "handler", 0)
       ELSE /\ Exit(p, "FileNotFoundError", "incomplete_lock")
            /\ UNCHANGED <<flag_dir, lock_line>>
    /\ UNCHANGED <<task_list, job_id, batch_mode, params, task_index, unlock_files,
                   outcome, invocations,
                   env_vars, cwd, stdout, output_files, toc>>

\* fail_lock: os.rename(flag_base+".lock", flag_base+".fail"); then do_task
\* re-raises the handler's exception
FailLock(p) ==
    /\ pc[p] = "fail_lock"
    /\ IF <<task_index[p], phase(p), "lock">> \in flag_dir
       THEN /\ flag_dir' = rename_lock(flag_dir, task_index[p], phase(p), "fail")
            /\ lock_line' = [lock_line EXCEPT ![<<task_index[p], phase(p)>>] = <<>>]
            /\ Raise(p, outcome[p], "handler", 0)
       ELSE /\ Exit(p, "FileNotFoundError", "fail_lock")
            /\ UNCHANGED <<flag_dir, lock_line>>
    /\ UNCHANGED <<task_list, job_id, batch_mode, params, task_index, unlock_files,
                   outcome, invocations,
                   env_vars, cwd, stdout, output_files, toc>>

\* finalize_lock, augment lock file: open(flag_base+".lock", "a") creates
\* the file when it is gone
FinalizeAppend(p) ==
    /\ pc[p] = "finalize_lock"
    /\ flag_dir' = flag_dir \cup {<<task_index[p], phase(p), "lock">>}
    /\ lock_line' = [lock_line EXCEPT ![<<task_index[p], phase(p)>>] =
                        append_line(@, <<"asctime", "\n", "task_time", "\n">>)]
    /\ Goto(p, "finalize_rename", 0)
    /\ UNCHANGED <<task_list, job_id, batch_mode, params, task_index, task_count, timer,
                   unlock_files, outcome, invocations,
                   env_vars, cwd, stdout, output_files, toc>>

\* finalize_lock, move lock file to done file; then do_archive returns, and
\* do_task returns to invoke_tasks_run: stop_timer, task_count += 1
FinalizeRename(p) ==
    /\ pc[p] = "finalize_rename"
    /\ IF <<task_index[p], phase(p), "lock">> \in flag_dir
       THEN /\ flag_dir' = rename_lock(flag_dir, task_index[p], phase(p), "done")
            /\ lock_line' = [lock_line EXCEPT ![<<task_index[p], phase(p)>>] = <<>>]
            /\ cwd' = [cwd EXCEPT ![p] = task_root_dir]
            /\ UNCHANGED <<stdout, output_files>>
            /\ IF mode(p) = kArchive
               THEN Exit(p, "return", "archive")
               ELSE /\ timer' = [timer EXCEPT ![p] = stop_timer(@, now[p])]
                    /\ task_count' = [task_count EXCEPT ![p] = @ + 1]
                    /\ Goto(p, "run_loop", 0)
       ELSE /\ Exit(p, "FileNotFoundError", "finalize_lock")
            /\ UNCHANGED <<flag_dir, lock_line, cwd, stdout, output_files>>
    /\ UNCHANGED <<task_list, job_id, batch_mode, params, task_index, unlock_files,
                   outcome, invocations,
                   env_vars, toc>>

(***************************************************************************)
(* The processes run interleaved.                                           *)
(***************************************************************************)
Next ==
    \E p \in Procs :
        \/ Invoke(p)
        \/ UnlockRemove(p)
        \/ RunLoop(p)
        \/ PrerunLoop(p)
        \/ GetLockWrite(p)
        \/ GetLockCheck(p)
        \/ GetLockExtend(p)
        \/ GetLockIncp(p)
        \/ GetLockRemove(p)
        \/ HandlerEnd(p)
        \/ IncompleteLock(p)
        \/ FailLock(p)
        \/ FinalizeAppend(p)
        \/ FinalizeRename(p)

Spec == Init /\ [][Next]_vars

\* the processes run interleaved in batch mode, some invocations start at a
\* later task (MCSCRIPT_TASK_START_INDEX), the task output files are
\* followed, and one more invocation is made
OutputInit ==
    /\ toc = <<>>
    /\ slurm = SlurmOff
    /\ archive = ArchiveOff
    /\ toc_tracked = FALSE
    /\ start_indices = {0, 1}
    /\ output_tracked = TRUE
    /\ invocation_limit = MaxInvocations + 1
    /\ task_list \in TaskLists
    /\ flag_dir = {}
    /\ lock_line = [k \in FlagKeys |-> <<>>]
    /\ job_id = [p \in Procs |-> JobIdOf(p)]
    /\ batch_mode = [p \in Procs |-> TRUE]
    /\ one_at_a_time = FALSE
    /\ InitProcs

OutputSpec == OutputInit /\ [][Next]_vars

\* the processes are the workers of one batch job (qsubm --workers, started by
\* GNU parallel under one SLURM_JOB_ID): config.job_id() gives every one of
\* them the same job id
WorkerInit ==
    /\ toc = <<>>
    /\ slurm = SlurmOff
    /\ archive = ArchiveOff
    /\ toc_tracked = FALSE
    /\ start_indices = {0}
    /\ output_tracked = FALSE
    /\ invocation_limit = MaxInvocations
    /\ task_list \in TaskLists
    /\ flag_dir = {}
    /\ lock_line = [k \in FlagKeys |-> <<>>]
    /\ job_id = [p \in Procs |-> JobIdOf(1)]
    /\ batch_mode = [p \in Procs |-> TRUE]
    /\ one_at_a_time = FALSE
    /\ InitProcs

WorkerSpec == WorkerInit /\ [][Next]_vars

\* one invocation at a time: init() is entered only while every other
\* process is between invocations; the processes run in batch mode or not
SeqInit ==
    /\ toc = <<>>
    /\ slurm = SlurmOff
    /\ archive = ArchiveOff
    /\ toc_tracked = FALSE
    /\ start_indices = {0}
    /\ output_tracked = FALSE
    /\ invocation_limit = MaxInvocations
    /\ task_list \in TaskLists
    /\ flag_dir = {}
    /\ lock_line = [k \in FlagKeys |-> <<>>]
    /\ job_id = [p \in Procs |-> JobIdOf(p)]
    /\ batch_mode \in [Procs -> BOOLEAN]
    /\ one_at_a_time = TRUE
    /\ InitProcs

SeqSpec == SeqInit /\ [][Next]_vars

\* the same, where a process that can take a step does take one: its code
\* has no step that waits for another process
FairSeqSpec == SeqSpec /\ WF_vars(Next)

\* one invocation at a time in batch mode, on the task lists with a masked
\* task, with tasks of pool None and with a shared descriptor; the list with
\* the masked task is also run with the invocations interleaved
VariantInit ==
    /\ toc = <<>>
    /\ slurm = SlurmOff
    /\ archive = ArchiveOff
    /\ toc_tracked = FALSE
    /\ start_indices = {0}
    /\ output_tracked = FALSE
    /\ invocation_limit = MaxInvocations
    /\ \/ task_list = MaskedTaskList /\ one_at_a_time \in BOOLEAN
       \/ task_list \in {NonePoolTaskList, DuplicateDescriptorTaskList} /\ one_at_a_time = TRUE
    /\ flag_dir = {}
    /\ lock_line = [k \in FlagKeys |-> <<>>]
    /\ job_id = [p \in Procs |-> JobIdOf(p)]
    /\ batch_mode = [p \in Procs |-> TRUE]
    /\ InitProcs

VariantSpec == VariantInit /\ [][Next]_vars

\* one invocation at a time in batch mode, where the contents of the toc
\* file are followed and one more invocation is made
TocInit ==
    /\ toc = <<>>
    /\ slurm = SlurmOff
    /\ archive = ArchiveOff
    /\ toc_tracked = TRUE
    /\ start_indices = {0}
    /\ output_tracked = FALSE
    /\ invocation_limit = MaxInvocations + 1
    /\ task_list \in TaskLists \cup {MaskedTaskList}
    /\ flag_dir = {}
    /\ lock_line = [k \in FlagKeys |-> <<>>]
    /\ job_id = [p \in Procs |-> JobIdOf(p)]
    /\ batch_mode = [p \in Procs |-> TRUE]
    /\ one_at_a_time = TRUE
    /\ InitProcs

TocSpec == TocInit /\ [][Next]_vars

(***************************************************************************)
(* utils.TaskTimer on its own: process 1 constructs a timer and calls its   *)
(* methods in any order, as time passes.  exit[1] holds how the last call   *)
(* ended and which call it was.                                             *)
(***************************************************************************)
\* remaining_time given to the constructor
TimerBudgets == {135, 200, 1000}
\* the seconds that pass between two calls
TimerDurations == {10, 60, 120}

TimerInit ==
    /\ toc = <<>>
    /\ slurm = SlurmOff
    /\ archive = ArchiveOff
    /\ toc_tracked = FALSE
    /\ start_indices = {0}
    /\ output_tracked = FALSE
    /\ invocation_limit = MaxInvocations
    /\ task_list \in TaskLists
    /\ flag_dir = {}
    /\ lock_line = [k \in FlagKeys |-> <<>>]
    /\ job_id = [p \in Procs |-> JobIdOf(p)]
    /\ batch_mode = [p \in Procs |-> TRUE]
    /\ one_at_a_time = TRUE
    /\ pc = [p \in Procs |-> "idle"]
    /\ params = [p \in Procs |-> DefaultEnv(kTOC, 0)]
    /\ task_index = [p \in Procs |-> None]
    /\ task_count = [p \in Procs |-> 0]
    /\ \E r \in TimerBudgets : timer = [p \in Procs |-> TaskTimer(IF p = 1 THEN r ELSE 0, 0)]
    /\ now = [p \in Procs |-> 0]
    /\ unlock_files = [p \in Procs |-> {}]
    /\ outcome = [p \in Procs |-> "none"]
    /\ exit = [p \in Procs |-> <<"return", "__init__">>]
    /\ contenders = [p \in Procs |-> {}]
    /\ invocations = 0
    /\ cwd = [p \in Procs |-> task_root_dir]
    /\ stdout = [p \in Procs |-> saved_stdout]
    /\ output_files = {}
    /\ seek_calls = [p \in Procs |-> 0]

\* time.time() moves on
Tick ==
    /\ \E d \in TimerDurations :
        /\ now[1] + d <= MaxNow
        /\ now' = [now EXCEPT ![1] = @ + d]
    /\ exit' = [exit EXCEPT ![1] = <<"return", "time">>]
    /\ UNCHANGED <<task_list, flag_dir, lock_line, job_id, pc, params, task_index,
                   task_count, timer, batch_mode, unlock_files, outcome, contenders,
                   invocations, env_vars, cwd, stdout, output_files, toc, seek_calls>>

\* TaskTimer.start_timer
StartTimer ==
    /\ IF insufficient_time(timer[1], now[1])
       THEN /\ exit' = [exit EXCEPT ![1] = <<"InsufficientTime", "start_timer">>]
            /\ UNCHANGED timer
       ELSE IF timer[1].task_start_time # None
       THEN /\ exit' = [exit EXCEPT ![1] = <<"RuntimeError", "start_timer">>]
            /\ UNCHANGED timer
       ELSE /\ exit' = [exit EXCEPT ![1] = <<"return", "start_timer">>]
            /\ timer' = [timer EXCEPT ![1].task_start_time = now[1]]
    /\ UNCHANGED <<task_list, flag_dir, lock_line, job_id, pc, params, task_index,
                   task_count, now, batch_mode, unlock_files, outcome, contenders,
                   invocations, env_vars, cwd, stdout, output_files, toc, seek_calls>>

\* TaskTimer.cancel_timer
CancelTimer ==
    /\ IF timer[1].task_start_time = None
       THEN /\ exit' = [exit EXCEPT ![1] = <<"RuntimeError", "cancel_timer">>]
            /\ UNCHANGED timer
       ELSE /\ exit' = [exit EXCEPT ![1] = <<"return", "cancel_timer">>]
            /\ timer' = [timer EXCEPT ![1] = cancel_timer(@)]
    /\ UNCHANGED <<task_list, flag_dir, lock_line, job_id, pc, params, task_index,
                   task_count, now, batch_mode, unlock_files, outcome, contenders,
                   invocations, env_vars, cwd, stdout, output_files, toc, seek_calls>>

\* TaskTimer.stop_timer
StopTimer ==
    /\ IF timer[1].task_start_time = None
       THEN /\ exit' = [exit EXCEPT ![1] = <<"RuntimeError", "stop_timer">>]
            /\ UNCHANGED timer
       ELSE /\ Len(timer[1].timings) < MaxTimings
            /\ exit' = [exit EXCEPT ![1] = <<"return", "stop_timer">>]
            /\ timer' = [timer EXCEPT ![1] = stop_timer(@, now[1])]
    /\ UNCHANGED <<task_list, flag_dir, lock_line, job_id, pc, params, task_index,
                   task_count, now, batch_mode, unlock_files, outcome, contenders,
                   invocations, env_vars, cwd, stdout, output_files, toc, seek_calls>>

TimerNext == Tick \/ StartTimer \/ CancelTimer \/ StopTimer

TimerSpec == TimerInit /\ [][TimerNext]_vars

(***************************************************************************)
(* The claims.                                                             *)
(***************************************************************************)
\* the pool patterns seek_task is asked about
SeekPools == {ALL, <<"a">>, <<"b", ",", "a">>, <<"a", "*">>, <<"?", "b">>}
mask_of(i) == task_list[i].mask

\* processes p and q run the handler of the same task and phase from their
\* run loops
BothInHandler(p, q) ==
    /\ p # q
    /\ pc[p] = "in_handler" /\ pc[q] = "in_handler"
    /\ mode(p) \in {kRun, kOffline} /\ mode(q) \in {kRun, kOffline}
    /\ task_index[p] = task_index[q] /\ phase(p) = phase(q)

\* C1, as claimed: at no time do two batch-mode run loops execute the phase
\* handler of the same (task index, phase).
C1_MutualExclusion == \A p, q \in Procs : ~BothInHandler(p, q)

\* C1, amended: two batch-mode run loops with different job ids that both
\* wrote the lock file of a (task, phase) before either read it back never
\* execute its handler at the same time.  (A process that writes the lock
\* file after the other has read it back does run the handler beside it.)
C1_ExclusionInsideWindow ==
    \A p, q \in Procs : BothInHandler(p, q) => q \notin contenders[p] /\ p \notin contenders[q]

\* a process runs the handler after a clash inside the window, and the other
\* process has yielded
C1_Witness ==
    \E p, q \in Procs :
        /\ pc[p] = "in_handler" /\ mode(p) = kRun
        /\ q \in contenders[p]
        /\ outcome[q] = "LockContention"

\* C2, as claimed: every (task index, phase), ARCH included, has at most one
\* of the flag files .lock, .fail, .incp, .done.
C2_FlagExclusivity ==
    \A k \in FlagKeys : Cardinality({ e \in FlagExt : <<k[1], k[2], e>> \in flag_dir }) <= 1

\* C3: seek_task with a phase p > 0 returns an index only if the status of
\* that task at phase p - 1 is Done; whatever the pool pattern and the prior
\* index, a task whose prior phase is not Done is skipped.
C3_SeekOnlyAfterDone ==
    \A pool \in SeekPools, ph \in Phases \ {0}, prior \in -1..(NumTasks - 1) :
        LET i == seek_task(task_list, pool, ph, prior)
        IN i # None => task_status(i, ph - 1, mask_of(i)) = kDone

\* a seek at a phase > 0 finds a task, while another task is skipped for its
\* prior phase alone
C3_Witness ==
    \E pool \in SeekPools, ph \in Phases \ {0}, prior \in -1..(NumTasks - 1) :
        /\ seek_task(task_list, pool, ph, prior) # None
        /\ \E j \in TaskIndices :
            /\ j > prior
            /\ j < seek_task(task_list, pool, ph, prior)
            /\ match_pool(task_list[j].pool, pool)
            /\ task_status(j, ph, mask_of(j)) = kPending
            /\ task_status(j, ph - 1, mask_of(j)) \in {kLocked, kFailed, kIncomplete, kPending}

\* C4: whenever a phase handler runs for (task i, phase p > 0), in Run,
\* Offline or Prerun mode, the .done flag of (i, p - 1) exists; and no step
\* of the engine removes a .done flag.
C4_GatedInHandler ==
    \A p \in Procs :
        (pc[p] = "in_handler" /\ mode(p) \in {kRun, kOffline, kPrerun} /\ phase(p) > 0)
            => <<task_index[p], phase(p) - 1, "done">> \in flag_dir
C4_DoneKept == \A f \in flag_dir : f[3] = "done" => f \in flag_dir'
C4_PhaseGating == [](C4_GatedInHandler) /\ [][C4_DoneKept]_vars

\* a handler of phase 1 runs, in each of the three modes somewhere
C4_Witness ==
    \E p \in Procs : pc[p] = "in_handler" /\ mode(p) = kPrerun /\ phase(p) > 0

\* C8: a step in which do_task ends in LockContention leaves the process at
\* the top of the run loop with the same task index (so the next seek starts
\* after it) and the same count, the timer not running and its history as it
\* was, and the flags directory unchanged (no .fail in particular).
C8_ClashStep(p) ==
    /\ pc[p] = "get_lock_check"
    /\ pc'[p] # "get_lock_check"
    /\ mode(p) \in {kRun, kOffline}
    /\ <<task_index[p], phase(p), "lock">> \in flag_dir
    /\ lock_line[<<task_index[p], phase(p)>>] # job_id[p]
C8_YieldIsNoFailure ==
    [][\A p \in Procs :
        C8_ClashStep(p)
        => /\ pc'[p] = "run_loop"
           /\ exit'[p] = exit[p]
           /\ task_index'[p] = task_index[p]
           /\ task_count'[p] = task_count[p]
           /\ timer'[p].timings = timer[p].timings
           /\ timer'[p].task_start_time = None
           /\ flag_dir' = flag_dir]_vars

\* a process has yielded after completing a task, and is back in the loop
C8_Witness ==
    \E p \in Procs :
        /\ pc[p] = "run_loop"
        /\ outcome[p] = "LockContention"
        /\ task_count[p] = 1
        /\ Len(timer[p].timings) = 1

\* C9, as claimed: in batch mode get_lock ends by returning True or False and
\* never by an exception.
C9_GetLockNeverRaises == \A p \in Procs : exit[p][2] # "get_lock"

\* C9, amended: get_lock raises only FileNotFoundError, and only when a file
\* it goes on to use is gone: the .lock file at the read-back (renamed by a
\* finalize, fail or incomplete transition, or deleted by an unlock), or the
\* .incp file it saw and goes on to remove.  While the .lock file exists at
\* the read-back, whatever others wrote to it, the read-back raises nothing:
\* get_lock returns False exactly when the first line is not its job id.
C9_RaisesOnlyWhenFileGone ==
    [][\A p \in Procs :
        /\ (exit'[p][2] = "get_lock" /\ pc[p] # "idle")
            => /\ exit'[p][1] = "FileNotFoundError"
               /\ \/ pc[p] = "get_lock_check"
                     /\ <<task_index[p], phase(p), "lock">> \notin flag_dir
                  \/ pc[p] = "get_lock_remove"
                     /\ <<task_index[p], phase(p), "incp">> \notin flag_dir
        /\ (/\ pc[p] = "get_lock_check" /\ pc'[p] # "get_lock_check"
            /\ <<task_index[p], phase(p), "lock">> \in flag_dir)
            => /\ pc'[p] # "idle"
               /\ (pc'[p] = "get_lock_extend")
                    <=> (lock_line[<<task_index[p], phase(p)>>] = job_id[p])]_vars

\* a process has read back a lock file that another process had extended in
\* between, and yielded
C9_Witness ==
    \E p, q \in Procs :
        /\ p # q
        /\ outcome[p] = "LockContention" /\ pc[p] = "run_loop"
        /\ lock_line[<<task_index[p], phase(p)>>] = job_id[p] \o <<"\n">>
        /\ pc[q] = "in_handler" /\ task_index[q] = task_index[p] /\ phase(q) = phase(p)

\* the flag files of the task and phase process p works on
flags_of(dir, p) == { e \in FlagExt : <<task_index[p], phase(p), e>> \in dir }

\* process p leaves do_task (to the run loop, or with an exception to the
\* caller of init) after it had acquired the lock
LeavesDoTask(p) ==
    /\ mode(p) = kRun
    /\ pc[p] \in {"in_handler", "finalize_lock", "finalize_rename", "incomplete_lock",
                  "fail_lock"}
    /\ pc'[p] \in {"idle", "run_loop"}

\* C5: in run mode, with no other process at work on the directory, every
\* exit of do_task after the lock was acquired leaves .done alone if the
\* handler returned, .incp alone if it raised InsufficientTime, and .fail
\* alone if it raised anything else (KeyboardInterrupt included); no .lock
\* remains.
C5_TerminalFlag ==
    [][\A p \in Procs :
        LeavesDoTask(p)
        => flags_of(flag_dir', p) =
              (IF outcome'[p] = "return" THEN {"done"}
               ELSE IF outcome'[p] = "InsufficientTime" THEN {"incp"}
               ELSE {"fail"})]_vars

\* do_task was left by a KeyboardInterrupt of the handler and the flag is
\* .fail
C5_Witness ==
    \E p \in Procs :
        /\ pc[p] = "idle" /\ mode(p) = kRun
        /\ exit[p] = <<"KeyboardInterrupt", "handler">>
        /\ flags_of(flag_dir, p) = {"fail"}

C7_GracefulStop ==
    \A p \in Procs :
        (pc[p] = "idle" /\ mode(p) = kRun /\ outcome[p] = "InsufficientTime")
        => exit[p][1] = "return"

\* C10: with no other process at work on the directory: (a) the step of
\* incomplete_lock leaves the status Incomplete; (b) whenever a task is
\* Incomplete at a phase, matches the pool and has its prior phase Done,
\* seek_task from the index before it returns it, and from any earlier index
\* returns it or an earlier task; (c) when get_lock has returned True (the
\* handler is about to run, or runs) there is no .incp file of that task and
\* phase.
C10_AfterIncompleteLock ==
    \A p \in Procs :
        (pc[p] = "incomplete_lock" /\ pc'[p] # pc[p])
        => task_status_in(flag_dir', task_index[p], phase(p), TRUE) = kIncomplete
C10_SeekReturnsIncomplete ==
    \A i \in TaskIndices, ph \in Phases, pool \in SeekPools :
        (/\ task_status(i, ph, mask_of(i)) = kIncomplete
         /\ match_pool(task_list[i].pool, pool)
         /\ (ph > 0 => task_status(i, ph - 1, mask_of(i)) = kDone))
        => /\ seek_task(task_list, pool, ph, i - 1) = i
           /\ \A prior \in -1..(i - 1) :
                seek_task(task_list, pool, ph, prior) \in (prior + 1)..i
C10_IncpRemoved ==
    \A p \in Procs :
        (pc[p] = "in_handler" /\ mode(p) \in {kRun, kOffline})
        => ~exists(flag_dir, task_index[p], phase(p), "incp")
C10_Retry ==
    [][C10_AfterIncompleteLock]_vars /\ [](C10_SeekReturnsIncomplete /\ C10_IncpRemoved)

\* a task one invocation left Incomplete is run again by a later invocation,
\* which holds the lock with the .incp file gone
C10_Witness ==
    \E p, q \in Procs :
        /\ p # q
        /\ exit[q] = <<"InsufficientTime", "handler">> /\ mode(q) = kRun
        /\ pc[p] = "in_handler" /\ mode(p) = kRun
        /\ task_index[p] = task_index[q] /\ phase(p) = phase(q)
        /\ flags_of(flag_dir, p) = {"lock"}

\* process p has selected the task and phase k and is at work on it
works_on(p, k) ==
    /\ pc[p] \in {"get_lock", "get_lock_check", "get_lock_extend", "get_lock_incp",
                  "get_lock_remove", "in_handler", "finalize_lock", "finalize_rename",
                  "incomplete_lock", "fail_lock"}
    /\ <<task_index[p], phase(p)>> = k
\* the flag files of the task and phase k
flags_at(dir, k) == { e \in FlagExt : <<k[1], k[2], e>> \in dir }
\* the status of k is Locked or Failed and no process is at work on k
Stale(k) ==
    /\ task_status(k[1], k[2], mask_of(k[1])) \in {kLocked, kFailed}
    /\ \A p \in Procs : ~works_on(p, k)

\* C11: seek_task never returns a task whose status is Locked or Failed; and
\* while a task and phase is Locked or Failed with no process at work on it,
\* no process starts to work on it, its flag files are changed only by a step
\* of task_unlock, which only removes .lock and .fail files, and once no flag
\* file of it is left its status is Pending and seek_task returns it again
\* (prior phase Done, pool ALL).
C11_NeverSought ==
    \A pool \in {ALL, <<"a", "*">>}, ph \in Phases, prior \in -1..(NumTasks - 1) :
        LET i == seek_task(task_list, pool, ph, prior)
        IN i # None => task_status(i, ph, mask_of(i)) \notin {kLocked, kFailed}
C11_StaleStep ==
    \A k \in TaskIndices \X Phases :
        Stale(k)
        => /\ \A p \in Procs : ~works_on(p, k)'
           /\ flags_at(flag_dir', k) # flags_at(flag_dir, k)
                => /\ \E p \in Procs : pc[p] = "task_unlock" /\ mode(p) = kUnlock
                   /\ flags_at(flag_dir', k) \subseteq flags_at(flag_dir, k)
                   /\ flags_at(flag_dir, k) \ flags_at(flag_dir', k) \subseteq {"lock", "fail"}
                   /\ flags_at(flag_dir', k) = {}
                        => /\ task_status_in(flag_dir', k[1], k[2], TRUE) = kPending
                           /\ (k[2] > 0 => task_status_in(flag_dir', k[1], k[2] - 1, TRUE) = kDone)
                                => seek_from(flag_dir', task_list, ALL, k[2], k[1]) = k[1]
C11_BlockedUntilUnlock == [](C11_NeverSought) /\ [][C11_StaleStep]_vars

\* a task that a run had left Failed is Pending again after an unlock
C11_Witness ==
    \E p, q \in Procs :
        /\ pc[p] = "idle" /\ mode(p) = kRun /\ exit[p] = <<"Exception", "handler">>
        /\ pc[q] = "idle" /\ mode(q) = kUnlock /\ exit[q] = <<"return", "unlock">>
        /\ task_index[p] \in TaskIndices
        /\ task_status(task_index[p], phase(p), TRUE) = kPending

\* the flag files with extension ext
files_of(dir, ext) == { f \in dir : f[3] = ext }

\* C12: with no other process at work on the directory, (a) no step of
\* task_unlock changes the sets of .done and .incp files; (b) when the unlock
\* invocation (default kinds) has returned, no .lock and no .fail file exists
\* for any task and phase, ARCH included; (c) task_unlock restricted to
\* Locked removes every .lock file and nothing else, restricted to Failed
\* every .fail file and nothing else.
C12_UnlockStep ==
    \A p \in Procs :
        (pc[p] = "task_unlock" \/ pc'[p] = "task_unlock")
        => /\ files_of(flag_dir', "done") = files_of(flag_dir, "done")
           /\ files_of(flag_dir', "incp") = files_of(flag_dir, "incp")
           /\ (pc'[p] = "idle" /\ exit'[p][1] = "return")
                => files_of(flag_dir', "lock") = {} /\ files_of(flag_dir', "fail") = {}
C12_RestrictedKinds ==
    /\ task_unlock_alone(flag_dir, {kLocked}) = flag_dir \ files_of(flag_dir, "lock")
    /\ task_unlock_alone(flag_dir, {kFailed}) = flag_dir \ files_of(flag_dir, "fail")
    /\ task_unlock_alone(flag_dir, {}) = flag_dir
C12_UnlockScope == [][C12_UnlockStep]_vars /\ [](C12_RestrictedKinds)

\* an unlock has returned after removing the .fail file a run had left,
\* while .done files are still there
C12_Witness ==
    \E p, q \in Procs :
        /\ pc[q] = "idle" /\ mode(q) = kUnlock /\ exit[q] = <<"return", "unlock">>
        /\ pc[p] = "idle" /\ mode(p) = kRun /\ exit[p] = <<"KeyboardInterrupt", "handler">>
        /\ task_index[p] = 1
        /\ flags_of(flag_dir, p) = {}
        /\ files_of(flag_dir, "done") # {}

\* the largest of three numbers
C13_Max3(a, b, c) == IF a >= b /\ a >= c THEN a ELSE IF b >= c THEN b ELSE c
\* required_time and remaining_time of the claim, both multiplied by
\* SafetyDen and by the number of recorded durations (by 1 if there is none)
C13_Scale(tm) == SafetyDen * (IF Len(tm.timings) = 0 THEN 1 ELSE Len(tm.timings))
C13_Required(tm) ==
    C13_Max3(IF Len(tm.timings) = 0 THEN 0 ELSE SafetyNum * sum(tm.timings),
             IF Len(tm.timings) = 0 THEN 0
             ELSE SafetyNum * tm.timings[Len(tm.timings)] * Len(tm.timings),
             minimum_time * C13_Scale(tm))
C13_Remaining(tm, t) == C13_Max3(0, 0, tm.end_time - t) * C13_Scale(tm)
\* the step is a call of start_timer by process 1
C13_StartStep == exit'[1][2] = "start_timer" /\ exit'[1] # exit[1]

\* C13, as claimed: start_timer raises InsufficientTime exactly when
\* required_time > remaining_time; when it raises, the timer is not started
\* and the history is unchanged; otherwise timing begins.
C13_TimerGating ==
    [][C13_StartStep
       => /\ (exit'[1][1] = "InsufficientTime")
                <=> (C13_Required(timer[1]) > C13_Remaining(timer[1], now[1]))
          /\ exit'[1][1] = "InsufficientTime" => timer' = timer
          /\ exit'[1][1] # "InsufficientTime"
                => /\ exit'[1][1] = "return"
                   /\ timer'[1] = [timer[1] EXCEPT !.task_start_time = now[1]]]_vars

\* C13, amended: as claimed, but "otherwise timing begins" only if the timer
\* is not running; on a timer that is running, start_timer with sufficient
\* time raises RuntimeError and leaves the timer as it is.
C13_TimerGatingUnlessRunning ==
    [][C13_StartStep
       => /\ (exit'[1][1] = "InsufficientTime")
                <=> (C13_Required(timer[1]) > C13_Remaining(timer[1], now[1]))
          /\ exit'[1][1] = "InsufficientTime" => timer' = timer
          /\ (exit'[1][1] # "InsufficientTime" /\ timer[1].task_start_time = None)
                => /\ exit'[1][1] = "return"
                   /\ timer'[1] = [timer[1] EXCEPT !.task_start_time = now[1]]
          /\ (exit'[1][1] # "InsufficientTime" /\ timer[1].task_start_time # None)
                => /\ exit'[1][1] = "RuntimeError"
                   /\ timer' = timer]_vars

\* start_timer has raised InsufficientTime because of the last duration
\* alone: the average and the minimum would have let it start
C13_Witness ==
    /\ exit[1] = <<"InsufficientTime", "start_timer">>
    /\ Len(timer[1].timings) = 2
    /\ LET rem == timer[1].end_time - now[1]
       IN /\ rem > minimum_time
          /\ SafetyNum * sum(timer[1].timings) <= SafetyDen * 2 * rem
          /\ SafetyNum * timer[1].timings[2] > SafetyDen * rem

\* C14: in a run-mode invocation, (a) the step that goes on from the top of
\* the loop to the lock and the handler is taken only when required_time <=
\* remaining_time at that step; (b) when a task was found and required_time >
\* remaining_time, the invocation returns ("Reached time limit.") with the
\* flag files and lock contents as they were; (c) the handler is entered only
\* from get_lock, and a handler that runs is left only by its own end, after
\* its full time, whatever the deadline.
C14_GateStep ==
    \A p \in Procs :
        (mode(p) = kRun /\ pc'[p] # pc[p])
        => /\ (pc[p] = "run_loop" /\ pc'[p] = "get_lock")
                => C13_Required(timer[p]) <= C13_Remaining(timer[p], now[p])
           /\ (/\ pc[p] = "run_loop"
               /\ params[p].count_limit = -1 \/ task_count[p] < params[p].count_limit
               /\ ~seek_task_raises(task_list, params[p].pool, phase(p), task_index[p])
               /\ seek_task(task_list, params[p].pool, phase(p), task_index[p]) # None
               /\ C13_Required(timer[p]) > C13_Remaining(timer[p], now[p]))
                => /\ pc'[p] = "idle" /\ exit'[p] = <<"return", "time_limit">>
                   /\ flag_dir' = flag_dir /\ lock_line' = lock_line
           /\ pc'[p] = "in_handler" => pc[p] \in {"get_lock_incp", "get_lock_remove"}
           /\ pc[p] = "in_handler"
                => /\ outcome'[p] \in HandlerOutcomes
                   /\ \/ pc'[p] # "idle" /\ now'[p] - now[p] \in HandlerTimes
                      \/ pc'[p] = "idle" /\ exit'[p] = <<outcome'[p], "handler">>
C15_Limit(p) == params[p].count_limit

\* C15: in a run-mode invocation with count limit L: (a) while L >= 0 the
\* number of attempts that ran to completion is at most L, and with L = 0 the
\* invocation never gets beyond the top of its loop; (b) the count goes up,
\* by one, only at the step where do_task returns normally, and such a step
\* happens only while the count is below L (or L is -1); a yield on lock
\* contention leaves the count as it is; (c) with L = 0 the one step of the
\* loop returns without a change to the flag files; (d) with L = -1 the loop
\* never stops for the count.
C15_AtMostL ==
    \A p \in Procs :
        (mode(p) = kRun /\ pc[p] # "idle" /\ C15_Limit(p) >= 0)
        => /\ task_count[p] <= C15_Limit(p)
           /\ C15_Limit(p) = 0 => pc[p] = "run_loop"
C15_CountStep ==
    \A p \in Procs :
        (mode(p) = kRun /\ pc[p] # "idle" /\ pc'[p] # pc[p])
        => /\ (pc[p] = "finalize_rename" /\ pc'[p] = "run_loop")
                => /\ task_count'[p] = task_count[p] + 1
                   /\ C15_Limit(p) = -1 \/ task_count[p] < C15_Limit(p)
           /\ (pc'[p] # "idle" /\ ~(pc[p] = "finalize_rename" /\ pc'[p] = "run_loop"))
                => task_count'[p] = task_count[p]
           /\ (pc[p] = "run_loop" /\ C15_Limit(p) = 0)
                => /\ pc'[p] = "idle" /\ exit'[p] = <<"return", "count_limit">>
                   /\ flag_dir' = flag_dir /\ lock_line' = lock_line
           /\ (pc[p] = "run_loop" /\ C15_Limit(p) = -1)
                => exit'[p] # <<"return", "count_limit">>
C15_CountLimit == [](C15_AtMostL) /\ [][C15_CountStep]_vars

\* a run with limit 1 has yielded one attempt and still counts 0
C15_Witness ==
    \E p \in Procs :
        /\ mode(p) = kRun /\ C15_Limit(p) = 1
        /\ pc[p] = "run_loop" /\ outcome[p] = "LockContention"
        /\ task_count[p] = 0

\* the invocation of process p is a run at phase ph for a pool that holds
\* every task, all unmasked, with no count limit and the large time budget
C16_FullRun(p, ph) ==
    /\ mode(p) = kRun /\ phase(p) = ph
    /\ params[p].count_limit = -1 /\ params[p].remaining_time = 1000
    /\ params[p].start_index = 0
    /\ \A i \in TaskIndices :
        /\ task_list[i].mask
        /\ ~match_pool_raises(task_list[i].pool, params[p].pool)
        /\ match_pool(task_list[i].pool, params[p].pool)
C16_AllAt(ph, status) ==
    \A i \in TaskIndices : task_status(i, ph, task_list[i].mask) = status

\* C16: for one process at a time: a full run at phase 0 that is the first
\* invocation on the directory and whose handlers all return (so that init
\* returns) ends with every task Done at phase 0 and Pending at phase 1; a
\* full run at phase 1 that follows it as the second invocation of the same
\* process and has returned ends with every task Done at phase 1; and every run that has
\* started does end.
C16_AfterPhase0 ==
    \A p \in Procs :
        (/\ invocations = 1 /\ pc[p] = "idle" /\ C16_FullRun(p, 0)
         /\ exit[p][1] = "return")
        => C16_AllAt(0, kDone) /\ C16_AllAt(1, kPending)
C16_AfterPhase1 ==
    \A p \in Procs :
        (/\ invocations = 2 /\ pc[p] = "idle" /\ C16_FullRun(p, 1)
         /\ \A q \in Procs \ {p} : exit[q] = <<"none", "">>
         /\ exit[p][1] = "return"
         /\ C16_AllAt(0, kDone))
        => C16_AllAt(1, kDone)
C16_Progress ==
    /\ [](C16_AfterPhase0 /\ C16_AfterPhase1)
    /\ \A p \in Procs : (pc[p] # "idle" /\ mode(p) = kRun) ~> (pc[p] = "idle")

\* the run at phase 1 has returned as the second invocation, with every task
\* Done at both phases
C16_Witness ==
    \E p \in Procs :
        /\ invocations = 2 /\ pc[p] = "idle" /\ C16_FullRun(p, 1)
        /\ \A q \in Procs \ {p} : exit[q] = <<"none", "">>
        /\ exit[p] = <<"return", "no_more_tasks">>
        /\ C16_AllAt(0, kDone) /\ C16_AllAt(1, kDone)

(***************************************************************************)
(* C17  Masking.                                                           *)
(***************************************************************************)
\* the process is past the loop of its invocation: in do_task or do_archive
C17_InDoTask(p) == pc[p] \notin {"idle", "run_loop", "prerun_loop", "task_unlock"}

\* C17: a task whose mask is false is never returned by seek_task, whatever
\* the pool, the phase and the prior index; no process is ever in do_task for
\* it; no flag file of it exists; and its status at every phase is Masked -
\* in every state any interleaving of invocations reaches
C17_Masking ==
    \A i \in TaskIndices :
        ~task_list[i].mask =>
            /\ \A ph \in Phases : task_status(i, ph, task_list[i].mask) = kMasked
            /\ \A ph \in Phases, ext \in FlagExt : ~exists(flag_dir, i, ph, ext)
            /\ \A ph \in Phases : lock_line[<<i, ph>>] = <<>>
            /\ \A ph \in Phases, pool \in SeekPools, prior \in -1..(NumTasks - 1) :
                   seek_task(task_list, pool, ph, prior) # i
            /\ \A p \in Procs : C17_InDoTask(p) /\ mode(p) # kArchive => task_index[p] # i

\* a Run invocation at phase 1 has returned for want of tasks on the list
\* with a masked task: the tasks before it are Done at both phases
C17_Witness ==
    \E p \in Procs, i \in TaskIndices :
        /\ ~task_list[i].mask
        /\ pc[p] = "idle" /\ mode(p) = kRun /\ phase(p) = 1
        /\ exit[p] = <<"return", "no_more_tasks">>
        /\ \A j \in TaskIndices \ {i} : \A ph \in Phases :
               task_status(j, ph, task_list[j].mask) = kDone
        /\ \A ph \in Phases : task_status(i, ph, task_list[i].mask) = kMasked

(***************************************************************************)
(* C18  Duplicate descriptor rejection.                                    *)
(***************************************************************************)
\* the descriptor callback returned the same value for two tasks
C18_SameDescriptor ==
    \E i, j \in TaskIndices : i # j /\ task_list[i].descriptor = task_list[j].descriptor

\* a step taken on such a list: it is an invocation, it ends at once in the
\* ScriptError of init, and it leaves the flag files and their contents alone
C18_InitStep ==
    C18_SameDescriptor =>
        /\ invocations' = invocations + 1
        /\ \E p \in Procs :
               /\ pc[p] = "idle" /\ pc'[p] = "idle"
               /\ exit'[p] = <<"ScriptError", "init">>
               /\ \A q \in Procs \ {p} : exit'[q] = exit[q]
        /\ flag_dir' = flag_dir
        /\ lock_line' = lock_line

\* C18: when two tasks have the same descriptor, every invocation, in every
\* mode, ends in the ScriptError of init; no process is ever in a handler (of
\* a phase or of the archive), and no flag file is created, changed or deleted
C18_DuplicateRejected ==
    /\ [](C18_SameDescriptor =>
              /\ flag_dir = {}
              /\ \A p \in Procs : pc[p] = "idle" /\ outcome[p] = "none"
              /\ \A p \in Procs : exit[p] \in {<<"none", "">>, <<"ScriptError", "init">>})
    /\ [][C18_InitStep]_vars

\* both processes have been rejected, one invoked in Run mode and one in
\* Archive mode
C18_Witness ==
    /\ C18_SameDescriptor
    /\ \E p, q \in Procs :
        /\ exit[p] = <<"ScriptError", "init">> /\ mode(p) = kRun
        /\ exit[q] = <<"ScriptError", "init">> /\ mode(q) = kArchive

(***************************************************************************)
(* C19  Pool matching.                                                     *)
(***************************************************************************)
\* the value stated for match_pool(pool, patterns)
C19_Stated(pool, patterns) ==
    \/ patterns = ALL
    \/ patterns = NoneStr /\ pool = NoneStr
    \/ /\ patterns # NoneStr /\ pool # NoneStr
       /\ \E k \in 1..Len(split(patterns)) : fnmatchcase(pool, split(patterns)[k])

\* C19: for the pattern of every invocation that is in its loop over the
\* tasks and the pool of the first task seek_task looks at, match_pool
\* returns, and returns the stated value; no invocation ends in an exception
\* raised by match_pool
C19_PoolMatching ==
    \A p \in Procs :
        /\ exit[p][2] # "match_pool"
        /\ pc[p] \in {"run_loop", "prerun_loop"} =>
               \A i \in TaskIndices :
                   i = task_index[p] + 1 =>
                       /\ ~match_pool_raises(task_list[i].pool, params[p].pool)
                       /\ match_pool(task_list[i].pool, params[p].pool)
                              = C19_Stated(task_list[i].pool, params[p].pool)

(***************************************************************************)
(* C20  Status derivation.                                                 *)
(***************************************************************************)
\* the extensions of the flag files that exist for (i, ph)
C20_Exts(i, ph) == { ext \in FlagExt : <<i, ph, ext>> \in flag_dir }

\* the stated precedence
C20_Stated(exts, mask) ==
    IF "lock" \in exts THEN kLocked
    ELSE IF "fail" \in exts THEN kFailed
    ELSE IF "incp" \in exts THEN kIncomplete
    ELSE IF "done" \in exts THEN kDone
    ELSE IF ~mask THEN kMasked
    ELSE kPending

\* the flag files of (i, ph) alone
C20_Own(i, ph) == { f \in flag_dir : f[1] = i /\ f[2] = ph }

\* C20: in every flag directory the processes produce, for every index,
\* phase and mask bit, the status read by existence checks is the one the
\* stated precedence gives for the flag files of (i, ph); it is the same when
\* every other flag file is taken away; and the status read from a listing
\* of the directory is the same status
C20_StatusDerivation ==
    LET flag_dir_list == listdir(flag_dir)
    IN \A i \in TaskIndices \cup {ARCH}, ph \in Phases, mask \in BOOLEAN :
           /\ task_status(i, ph, mask) = C20_Stated(C20_Exts(i, ph), mask)
           /\ task_status_in(C20_Own(i, ph), i, ph, mask) = task_status(i, ph, mask)
           /\ task_status_listed(i, ph, mask, flag_dir_list) = task_status(i, ph, mask)
           /\ task_status_listed(i, ph, mask, listdir(C20_Own(i, ph))) = task_status(i, ph, mask)

\* a directory where the precedence decides: a task with a .lock file beside
\* its .done file, and a masked task with no flag file
C20_Witness ==
    /\ \E i \in TaskIndices, ph \in Phases : {"lock", "done"} \subseteq C20_Exts(i, ph)
    /\ \E i \in TaskIndices, ph \in Phases :
            C20_Exts(i, ph) = {} /\ ~task_list[i].mask

(***************************************************************************)
(* C21  The table of contents is read-only and idempotent.                  *)
(***************************************************************************)
\* the step is a whole TOC-mode invocation of some process: an invocation
\* that ends in its first step and has written the table, or has left the
\* record of a TOC-mode invocation with its process
C21_TocStep ==
    /\ invocations' = invocations + 1
    /\ pc' = pc
    /\ \/ toc' # toc
       \/ \E p \in Procs :
              /\ params'[p] # params[p] \/ exit'[p] # exit[p]
              /\ params'[p].mode = kTOC
              /\ exit'[p] = <<"return", "toc">>

\* the lines of a table for the flag files as they are: for each task, in
\* the order of the list, its index, pool, status at each phase, descriptor
C21_Lines ==
    [k \in 1..NumTasks |->
        <<index_str(k - 1), task_list[k - 1].pool,
          [ph \in Phases |-> task_status(k - 1, ph, task_list[k - 1].mask)],
          task_list[k - 1].descriptor>>]

\* the table written last shows the flag files as they are
C21_Current == toc # <<>> /\ toc.lines = C21_Lines

\* C21: a TOC-mode invocation creates, renames and deletes no flag file and
\* leaves the table of the flag files as they are; and as long as no flag
\* file changes, a table that shows them stays the same in all but its
\* timestamp, whether it is generated again or not
C21_TocReadOnlyIdempotent ==
    /\ [][C21_TocStep => /\ flag_dir' = flag_dir
                         /\ lock_line' = lock_line
                         /\ C21_Current']_vars
    /\ [][(C21_Current /\ flag_dir' = flag_dir) =>
              /\ toc' # <<>>
              /\ toc'.lines = toc.lines
              /\ toc'.phases = toc.phases
              /\ toc'.tasks = toc.tasks]_vars

\* after a run that completed a task, both processes have generated the
\* table, one after the other, and the second table carries the other time
C21_Witness ==
    /\ invocations = 3
    /\ \A p \in Procs : mode(p) = kTOC /\ exit[p] = <<"return", "toc">>
    /\ \E i \in TaskIndices : task_status(i, 0, task_list[i].mask) = kDone
    /\ C21_Current
    /\ toc.time = 2

(***************************************************************************)
(* C22  Prerun leaves the flag store untouched.                            *)
(***************************************************************************)
\* the step is a step of process p
C22_StepOf(p) ==
    \/ pc'[p] # pc[p]
    \/ exit'[p] # exit[p]
    \/ params'[p] # params[p]
    \/ task_index'[p] # task_index[p]
    \/ outcome'[p] # outcome[p]

\* all that a step of process q reads or writes, but the count of invocations
C22_ViewOf(q) ==
    <<flag_dir, lock_line, task_list, job_id[q], batch_mode[q], pc[q], params[q],
      task_index[q], task_count[q], timer[q], now[q], unlock_files[q], outcome[q],
      exit[q], cwd[q], stdout[q]>>

\* a step of a Prerun invocation of p: it leaves every flag file and its
\* contents as they are, and all that another process goes by
C22_PrerunStep ==
    \A p \in Procs :
        (C22_StepOf(p) /\ params'[p].mode = kPrerun) =>
            /\ flag_dir' = flag_dir
            /\ lock_line' = lock_line
            /\ \A q \in Procs \ {p} : C22_ViewOf(q)' = C22_ViewOf(q)

\* C22: no step of a Prerun invocation creates, rewrites, renames or deletes
\* a flag file or changes what a concurrent invocation goes by, whether its
\* handlers return or raise; and a Prerun invocation is held back neither by
\* the count limit nor by the timer: it starts no timer, counts no task, and
\* never ends for the count limit or the time limit
C22_PrerunFrame ==
    /\ [][C22_PrerunStep]_vars
    /\ [](\A p \in Procs :
            mode(p) = kPrerun =>
                /\ exit[p][2] \notin {"count_limit", "time_limit", "start_timer"}
                /\ task_count[p] = 0
                /\ timer[p].task_start_time = None /\ timer[p].timings = <<>>)

\* a Prerun invocation with count limit 0 and no time left is in a handler
\* while a Run invocation of the other process holds the lock of a task
C22_Witness ==
    \E p, q \in Procs :
        /\ mode(p) = kPrerun /\ params[p].count_limit = 0 /\ params[p].remaining_time = 0
        /\ pc[p] = "in_handler"
        /\ mode(q) = kRun /\ pc[q] = "in_handler"
        /\ task_index[p] = task_index[q]

(***************************************************************************)
(* C23  Archive mutual exclusion.                                          *)
(***************************************************************************)
\* C23: two Archive invocations for the same archive phase are never in
\* their archive handler at the same time
C23_ArchiveExclusion ==
    \A p, q \in Procs :
        (p # q /\ mode(p) = kArchive /\ mode(q) = kArchive /\ phase(p) = phase(q)) =>
            ~(pc[p] = "in_handler" /\ pc[q] = "in_handler")

(***************************************************************************)
(* C24  Process-wide state after do_task.                                  *)
(***************************************************************************)
\* where a process is when no do_task call is in progress
C24_OutsideDoTask == {"idle", "run_loop", "prerun_loop"}

\* C24: whenever do_task has exited (by return, InsufficientTime or any
\* other exception) the working directory is the run root directory and
\* standard output is the stream that was in place before the call
C24_StateRestored ==
    \A p \in Procs :
        (mode(p) \in {kRun, kOffline, kPrerun} /\ pc[p] \in C24_OutsideDoTask) =>
            cwd[p] = task_root_dir /\ stdout[p] = saved_stdout

(***************************************************************************)
(* C25  Flag transitions without the lock file.                            *)
(***************************************************************************)
\* process p takes the first step of finalize_lock, fail_lock or
\* incomplete_lock while its (task, phase) has no .lock file
C25_CalledWithoutLock(p) ==
    /\ pc[p] \in {"finalize_lock", "fail_lock", "incomplete_lock"}
    /\ pc'[p] # pc[p]
    /\ <<task_index[p], phase(p), "lock">> \notin flag_dir

\* C25: finalize_lock, fail_lock and incomplete_lock, called for a (task,
\* phase) without a .lock file, raise a filesystem error and leave the flag
\* directory unchanged
C25_TransitionsNeedLock ==
    [][\A p \in Procs :
          C25_CalledWithoutLock(p) =>
              /\ flag_dir' = flag_dir
              /\ pc'[p] = "idle"
              /\ exit'[p][1] = "FileNotFoundError"]_vars

(***************************************************************************)
(* C26  Offline mode and Run mode.                                         *)
(***************************************************************************)
\* the flag file a Run-mode invocation leaves for the task whose handler
\* raised exc
C26_RunFlag(exc) == IF exc = "InsufficientTime" THEN "incp" ELSE "fail"

\* the invocation of process p ends in this step with an exception of its
\* phase handler
C26_HandlerRaised(p) ==
    /\ exit'[p] # exit[p]
    /\ exit'[p][2] = "handler"

\* C26: an Offline-mode invocation leaves the same flag files as a Run-mode
\* invocation: when the handler raises, the task's lock has become the
\* .incp (InsufficientTime) or .fail (other exception) flag
C26_OfflineAsRun ==
    [][\A p \in Procs :
          (mode(p) \in {kRun, kOffline} /\ C26_HandlerRaised(p)) =>
              /\ <<task_index[p], phase(p), C26_RunFlag(exit'[p][1])>> \in flag_dir'
              /\ <<task_index[p], phase(p), "lock">> \notin flag_dir']_vars

(***************************************************************************)
(* C27  What a Run-mode invocation reports to its caller.                  *)
(***************************************************************************)
\* the value invoke_tasks_run hands back when its loop stops for the reason
\* why: each "break" falls off the end of the function, there is no return
\* statement; task_master and init pass nothing on either
invoke_tasks_run_returns(why) == NoneStr

\* the boolean "the loop stopped because no more tasks were available"
C27_Complete(why) == IF why = "no_more_tasks" THEN <<"True">> ELSE <<"False">>

\* C27: when a Run-mode invocation ends, the caller receives a boolean that
\* is true exactly when the loop stopped for lack of available tasks and
\* false when it stopped at the time limit or the count limit
C27_CompletionExposed ==
    \A p \in Procs :
        ( /\ mode(p) = kRun
          /\ pc[p] = "idle"
          /\ exit[p][1] = "return"
          /\ exit[p][2] \in {"no_more_tasks", "time_limit", "count_limit"} ) =>
            invoke_tasks_run_returns(exit[p][2]) = C27_Complete(exit[p][2])

(***************************************************************************)
(* C28  An invocation without a pool.                                      *)
(***************************************************************************)
\* the invocation of process p is one in Run, Offline or Prerun mode with
\* the pool parameter unset
C28_NoPool(p) == mode(p) \in {kRun, kOffline, kPrerun} /\ params[p].pool = NoneStr

\* C28: on a task list that init accepts, an invocation in Run, Offline or
\* Prerun mode whose pool is None returns at once: it seeks no task, executes
\* no handler, and the step that starts it changes no flag file, whatever the
\* pools of the tasks in the list
C28_NoPoolNoWork ==
    /\ [](\A p \in Procs :
            (C28_NoPool(p) /\ ~has_duplicate_descriptor(task_list)) =>
                /\ pc[p] = "idle"
                /\ exit[p] = <<"return", "no_pool">>
                /\ task_index[p] = None
                /\ outcome[p] = "none"
                /\ cwd[p] = task_root_dir /\ stdout[p] = saved_stdout)
    /\ [][(invocations' # invocations) =>
                flag_dir' = flag_dir /\ lock_line' = lock_line]_vars

\* on the list with tasks of pool None, all of them pending, a Prerun-mode
\* and an Offline-mode invocation without a pool have both returned
C28_Witness ==
    /\ task_list = NonePoolTaskList
    /\ \A i \in TaskIndices : task_status(i, 0, task_list[i].mask) = kPending
    /\ \E p, q \in Procs :
        /\ mode(p) = kPrerun /\ C28_NoPool(p) /\ exit[p] = <<"return", "no_pool">>
        /\ mode(q) = kOffline /\ C28_NoPool(q) /\ exit[q] = <<"return", "no_pool">>

(***************************************************************************)
(* config-slurm-nersc: init and termination of a batch job.                *)
(***************************************************************************)
\* the variables of the task engine
engine_vars == <<task_list, flag_dir, lock_line, job_id, pc, params, task_index, task_count,
                 timer, now, batch_mode, unlock_files, outcome, exit, contenders,
                 invocations, one_at_a_time, cwd, stdout, output_files, toc,
                 toc_tracked, start_indices, output_tracked, invocation_limit, seek_calls>>

\* no invocation of the task engine is followed
EngineOff ==
    /\ toc = <<>>
    /\ toc_tracked = FALSE
    /\ start_indices = {0}
    /\ output_tracked = FALSE
    /\ invocation_limit = MaxInvocations
    /\ task_list = <<>>
    /\ flag_dir = {}
    /\ lock_line = [k \in FlagKeys |-> <<>>]
    /\ job_id = [p \in Procs |-> JobIdOf(p)]
    /\ batch_mode = [p \in Procs |-> TRUE]
    /\ one_at_a_time = TRUE
    /\ InitProcs

\* MCSCRIPT_WALL_SEC: the wall time asked for at submission, seconds
WallTimes == {300}
\* seconds by which the elapsed time of the script moves on
ElapseSteps == {30, 60}
\* the elapsed time of one run of the script stays below this
MaxElapsed == 180

\* a Slurm time string "[d-][h:]m[:s]", as the groups d, h, m, s that the
\* pattern of slurm_time_to_seconds finds in it; an absent group is None, and
\* a string without the group m does not match the pattern
TimeString(d, h, m, s) == [d |-> d, h |-> h, m |-> m, s |-> s]
\* squeue's MinTime: "" (or "N/A"), "1", "2:00", "0-0:03:00"
MinTimes ==
    { TimeString(None, None, None, None), TimeString(None, None, 1, None),
      TimeString(None, None, 2, 0), TimeString(0, 0, 3, 0) }
\* the job comment, as the numbers that follow its "AccumulatedTime:" tags;
\* "" and "(null)" have none, qsubm submits "AccumulatedTime:0"
Comments == { <<>>, <<0>>, <<1>>, <<2, 0>> }

\* slurm_time_to_seconds raises ValueError: "not a valid time specification"
slurm_time_to_seconds_raises(t) == t.m = None

\* slurm_time_to_seconds: the sum over the groups that are there
slurm_time_to_seconds(t) ==
    (IF t.d # None THEN 86400 * t.d ELSE 0)
    + (IF t.h # None THEN 3600 * t.h ELSE 0)
    + (IF t.m # None THEN 60 * t.m ELSE 0)
    + (IF t.s # None THEN t.s ELSE 0)

\* re.search(r"AccumulatedTime:([0-9]+)", comment): int(result.group(1)) of
\* the first tag, None without a tag
accumulated_minutes(comment) == IF comment = <<>> THEN None ELSE comment[1]

\* re.sub(r"AccumulatedTime:[0-9]+", "AccumulatedTime:<minutes>", comment):
\* every tag is rewritten, a comment without a tag stays as it is
update_comment(comment, minutes) == [i \in 1..Len(comment) |-> minutes]

\* "{:.0f}".format(n/d) for n >= 0: the nearest integer, a tie going to the
\* even one
format_0f(n, d) ==
    LET q == n \div d
        r == n % d
    IN  IF 2 * r < d THEN q
        ELSE IF 2 * r > d THEN q + 1
        ELSE IF q % 2 = 0 THEN q ELSE q + 1

\* parameters.run of a script whose config.init has set nothing (requeueable
\* is then never read)
RunUnset ==
    [elapsed |-> 0, submission_wall_time_sec |-> None, requeueable |-> FALSE,
     min_time_sec |-> None, comment |-> <<>>, accumulated_walltime_sec |-> None]

\* what a termination was called with and what it did
Terminated(success, complete, requeue, raised) ==
    [success |-> success, complete |-> complete, requeue |-> requeue, raised |-> raised]

\* a job waits in the queue: the environment of its script (SLURM_JOB_ID or
\* "0", batch mode, MCSCRIPT_WALL_SEC) and what squeue reports of it
RequeueInit ==
    /\ EngineOff
    /\ archive = ArchiveOff
    /\ \E j \in {"0", "1"}, b \in BOOLEAN, w \in WallTimes,
          rq \in {"0", "1"}, mt \in MinTimes, c \in Comments :
          slurm = [pc |-> "queued",
                   env |-> [job_id |-> j, batch_mode |-> b, wall_time_sec |-> w],
                   job |-> [requeue |-> rq, min_time |-> mt, comment |-> c,
                            time_limit |-> w \div 60],
                   run |-> RunUnset,
                   last |-> Terminated(FALSE, FALSE, FALSE, FALSE)]

\* config.init, once the job runs: the metadata taken from squeue
ConfigInit ==
    /\ slurm.pc = "queued"
    /\ slurm' = [slurm EXCEPT
            !.pc = "running",
            !.run = IF slurm.env.job_id # "0" /\ slurm.env.batch_mode
                    THEN [elapsed |-> 0,
                          submission_wall_time_sec |-> slurm.env.wall_time_sec,
                          requeueable |-> (slurm.job.requeue = "1"),
                          min_time_sec |->
                              IF slurm_time_to_seconds_raises(slurm.job.min_time)
                              THEN None
                              ELSE slurm_time_to_seconds(slurm.job.min_time),
                          comment |-> slurm.job.comment,
                          accumulated_walltime_sec |->
                              IF accumulated_minutes(slurm.job.comment) # None
                              THEN 60 * accumulated_minutes(slurm.job.comment)
                              ELSE 0]
                    ELSE RunUnset]
    /\ UNCHANGED <<engine_vars, archive>>

\* the script runs: parameters.run.get_elapsed_time() grows
Elapse ==
    /\ slurm.pc = "running"
    /\ \E d \in ElapseSteps :
        /\ slurm.run.elapsed + d <= MaxElapsed
        /\ slurm' = [slurm EXCEPT !.run.elapsed = @ + d]
    /\ UNCHANGED <<engine_vars, archive>>

\* a requeue for every job with time left
requeue_condition_any_end(success, complete, requeueable, requeue_time_sec, min_time_sec) ==
    requeueable /\ requeue_time_sec > min_time_sec

\* termination: "requeue job if terminating in a success state but tasks not
\* complete"
requeue_condition(success, complete, requeueable, requeue_time_sec, min_time_sec) ==
    success /\ ~complete /\ requeueable /\ requeue_time_sec > min_time_sec

\* control.termination(success, complete): config.termination, then sys.exit.
\* "scontrol requeue" puts the job back in the queue, "scontrol update" sets
\* its TimeLimit (minutes) and Comment.
Termination ==
    /\ slurm.pc = "running"
    /\ \E success \in BOOLEAN, complete \in BOOLEAN :
        LET run == slurm.run
            accumulated_walltime_sec == run.accumulated_walltime_sec + run.elapsed
            requeue_time_sec == run.submission_wall_time_sec - accumulated_walltime_sec
        IN  IF slurm.env.job_id = "0" \/ ~slurm.env.batch_mode
            THEN \* "no termination if job ID is "0" or if not in batch mode"
                 slurm' = [slurm EXCEPT
                              !.pc = "ended",
                              !.last = Terminated(success, complete, FALSE, FALSE)]
            ELSE IF success /\ ~complete /\ run.requeueable /\ run.min_time_sec = None
            THEN \* parameters.run.min_time_sec was never set: AttributeError
                 slurm' = [slurm EXCEPT
                              !.pc = "ended",
                              !.run.accumulated_walltime_sec = accumulated_walltime_sec,
                              !.last = Terminated(success, complete, FALSE, TRUE)]
            ELSE IF requeue_condition(success, complete, run.requeueable,
                                      requeue_time_sec, run.min_time_sec)
            THEN slurm' = [slurm EXCEPT
                              !.pc = "queued",
                              !.run.accumulated_walltime_sec = accumulated_walltime_sec,
                              !.job.comment =
                                  update_comment(run.comment,
                                                 format_0f(accumulated_walltime_sec, 60)),
                              !.job.time_limit = format_0f(requeue_time_sec, 60),
                              !.last = Terminated(success, complete, TRUE, FALSE)]
            ELSE slurm' = [slurm EXCEPT
                              !.pc = "ended",
                              !.run.accumulated_walltime_sec = accumulated_walltime_sec,
                              !.last = Terminated(success, complete, FALSE, FALSE)]
    /\ UNCHANGED <<engine_vars, archive>>

RequeueNext == ConfigInit \/ Elapse \/ Termination

RequeueSpec == RequeueInit /\ [][RequeueNext]_vars

(***************************************************************************)
(* C29  The requeue guard.                                                 *)
(***************************************************************************)
\* the accumulated walltime with the elapsed time of this run, and what is
\* left of the wall time asked for at submission, at a termination
C29_Accumulated == slurm.run.accumulated_walltime_sec + slurm.run.elapsed
C29_Budget == slurm.run.submission_wall_time_sec - C29_Accumulated

\* a and b differ by at most half a minute
C29_SameMinute(a, b) == a - b <= 30 /\ b - a <= 30

\* the step is a termination
C29_TerminationStep == slurm.pc = "running" /\ slurm'.pc # "running"

MaxEntries == 3
\* what os.scandir("results") can yield: directories and files
ResultsEntries ==
    { [name |-> "res", is_dir |-> TRUE], [name |-> "out", is_dir |-> TRUE],
      [name |-> "a.dat", is_dir |-> FALSE], [name |-> "b.dat", is_dir |-> FALSE] }
\* the listings of a results directory, in the order scandir yields them
ResultsListings ==
    { r \in UNION { [1..n -> ResultsEntries] : n \in 0..MaxEntries } :
          \A i, j \in 1..Len(r) : r[i].name = r[j].name => i = j }

\* entry.path
entry_path(entry) == <<"results", entry.name>>

\* what is left of the scandir iterator results_dir once a loop has run over
\* it: nothing
exhausted(it) == SubSeq(it, Len(it) + 1, Len(it))

\* archive_handler_automagic, "determine sub-archives to generate":
\* postfix_paths_list, the (postfix, paths) of the archives to make.  Both
\* comprehensions read the one iterator results_dir.
postfix_paths_list(include_results, results_dir) ==
    IF include_results
    THEN LET is_dir(entry) == entry.is_dir
             is_file(entry) == ~entry.is_dir
             \* [("-"+str(entry.name), [entry.path]) for entry in results_dir
             \*  if entry.is_dir()]
             dirs == SelectSeq(results_dir, is_dir)
             sub_archives == [i \in 1..Len(dirs) |->
                                 <<<<"-", dirs[i].name>>, <<entry_path(dirs[i])>>>>]
             \* [entry.path for entry in results_dir if entry.is_file()]
             files == SelectSeq(exhausted(results_dir), is_file)
             file_list == [i \in 1..Len(files) |-> entry_path(files[i])]
         IN  IF Len(sub_archives) > 0
             THEN IF Len(file_list) > 0
                  THEN \* "collect files in results dir into main archive"
                       sub_archives \o << <<<<>>, file_list>> >>
                  ELSE sub_archives
             ELSE << <<<<>>, << <<"results">> >>>> >>
    ELSE << <<<<"-nores">>, <<>>>> >>

\* the contents of every archive besides its paths: the toc file and the
\* flags, output and batch directories
archive_metadata == << <<"toc_filename">>, <<"flags">>, <<"output">>, <<"batch">> >>

\* a results directory is there and the archive handler is about to run
ArchiveInit ==
    /\ EngineOff
    /\ slurm = SlurmOff
    /\ \E b \in BOOLEAN, r \in ResultsListings :
          archive = [pc |-> "listed", include_results |-> b, results |-> r, list |-> <<>>]

\* archive_handler_automagic(include_results): one tar call per (postfix,
\* paths), then gzip for the archives that is_compressible accepts
ArchiveHandler ==
    /\ archive.pc = "listed"
    /\ LET todo == postfix_paths_list(archive.include_results, archive.results)
       IN  \E gz \in [1..Len(todo) -> BOOLEAN] :
              archive' = [archive EXCEPT
                  !.pc = "archived",
                  !.list = [i \in 1..Len(todo) |->
                               [postfix |-> todo[i][1],
                                contents |-> archive_metadata \o todo[i][2],
                                gz |-> gz[i]]]]
    /\ UNCHANGED <<engine_vars, slurm>>

ArchiveNext == ArchiveHandler

ArchiveSpec == ArchiveInit /\ [][ArchiveNext]_vars

(***************************************************************************)
(* C30  One archive per subdirectory of the results.                       *)
(***************************************************************************)
\* the child directories and the loose files of the results directory
C30_Children == { i \in 1..Len(archive.results) : archive.results[i].is_dir }
C30_Loose == { i \in 1..Len(archive.results) : ~archive.results[i].is_dir }

\* the archives whose contents include the path
C30_ArchivesOf(path) ==
    { k \in 1..Len(archive.list) :
          \E n \in 1..Len(archive.list[k].contents) : archive.list[k].contents[n] = path }

\* C30: for a results directory with at least one child directory,
\* archive_handler_automagic makes one archive per child directory and, when
\* there are loose files in the results root, one more archive that contains
\* those files; for an empty results directory it makes a single archive of
\* the metadata alone, with the postfix "-nores"
C30_ArchivePolicy ==
    (archive.pc = "archived" /\ archive.include_results) =>
        /\ C30_Children # {} =>
              /\ \A i \in C30_Children :
                    Cardinality(C30_ArchivesOf(entry_path(archive.results[i]))) = 1
              /\ Len(archive.list) =
                    Cardinality(C30_Children) + (IF C30_Loose # {} THEN 1 ELSE 0)
              /\ C30_Loose # {} =>
                    \E k \in 1..Len(archive.list) :
                        \A i \in C30_Loose :
                            k \in C30_ArchivesOf(entry_path(archive.results[i]))
        /\ archive.results = <<>> =>
              /\ Len(archive.list) = 1
              /\ archive.list[1].postfix = <<"-nores">>
              /\ archive.list[1].contents = archive_metadata

(***************************************************************************)
(* C31  Selection is first-fit and complete.                               *)
(***************************************************************************)
\* task i qualifies for selection at the phase, for the pool pattern
C31_Qualifies(i, pool, ph) ==
    /\ C19_Stated(task_list[i].pool, pool)
    /\ C20_Stated(C20_Exts(i, ph), task_list[i].mask) \in {kPending, kIncomplete}
    /\ ph = 0 \/ C20_Stated(C20_Exts(i, ph - 1), task_list[i].mask) = kDone

\* the smallest qualifying index above prior, None when there is none
C31_FirstFit(pool, ph, prior) ==
    LET fit == { i \in TaskIndices : i > prior /\ C31_Qualifies(i, pool, ph) }
    IN  IF fit = {} THEN None
        ELSE CHOOSE i \in fit : \A j \in fit : i <= j

\* the step is a call of seek_task by process p
C31_SeekStep(p) == pc[p] \in {"run_loop", "prerun_loop"} /\ pc'[p] # pc[p]

\* C31: whenever a process is about to call seek_task, the call returns, and
\* returns the smallest index above the prior one whose pool matches, whose
\* status at the phase is Pending or Incomplete and whose earlier phase is
\* Done, or None when there is no such index; and the call changes no flag
C31_FirstFitComplete ==
    /\ [](\A p \in Procs :
            (pc[p] \in {"run_loop", "prerun_loop"}
                /\ within_count_limit(params[p].count_limit, task_count[p])) =>
                /\ ~seek_task_raises(task_list, params[p].pool, phase(p), task_index[p])
                /\ seek_task(task_list, params[p].pool, phase(p), task_index[p])
                       = C31_FirstFit(params[p].pool, phase(p), task_index[p]))
    /\ [][\A p \in Procs :
            C31_SeekStep(p) => flag_dir' = flag_dir /\ lock_line' = lock_line]_vars

(***************************************************************************)
(* C32  Forward-only scanning.                                             *)
(***************************************************************************)
\* process p is inside do_task
C32_InDoTask(p) == pc[p] \notin {"idle", "run_loop", "prerun_loop", "task_unlock"}

\* C32: within one Run-mode invocation the index handed to do_task is at
\* least start_index and larger than every index handed to it before: the
\* loop's index changes only where seek_task is called, and only upwards,
\* also after a yield and when an earlier task has become eligible again
C32_ForwardOnly ==
    /\ [](\A p \in Procs :
            (mode(p) = kRun /\ C32_InDoTask(p)) =>
                task_index[p] \in TaskIndices /\ task_index[p] >= params[p].start_index)
    /\ [][\A p \in Procs :
            (mode(p) = kRun /\ pc[p] # "idle" /\ task_index'[p] # task_index[p]) =>
                /\ pc[p] = "run_loop"
                /\ C32_InDoTask(p)' => task_index'[p] > task_index[p]
                /\ ~C32_InDoTask(p)' => pc'[p] = "idle"]_vars

\* a Run-mode process whose attempt of task 0 yielded has gone on to task 1
\* while task 0, left Incomplete by the other process, is eligible again
C32_Witness ==
    \E p \in Procs :
        /\ mode(p) = kRun
        /\ pc[p] = "get_lock"
        /\ task_index[p] = 1
        /\ outcome[p] = "LockContention"
        /\ task_status(0, phase(p), task_list[0].mask) = kIncomplete

(***************************************************************************)
(* C33: a yield changes nothing further.  When the re-read of get_lock     *)
(* finds another job's id in the lock file of a task, do_task raises       *)
(* LockContention before anything else: on that step the flag files and    *)
(* the contents of the lock files stay as they are (the .lock file is not  *)
(* removed or renamed, an .incp file stays, no .done or .fail appears),    *)
(* the task output files stay, the process does not enter the handler and  *)
(* keeps its working directory and stdout, and it is back in its run loop. *)
(***************************************************************************)
\* the step of p on which its get_lock finds a lock file that is not its own
C33_YieldStep(p) ==
    /\ pc[p] = "get_lock_check"
    /\ pc'[p] # "get_lock_check"
    /\ mode(p) # kArchive
    /\ <<task_index[p], phase(p), "lock">> \in flag_dir
    /\ lock_line[<<task_index[p], phase(p)>>] # job_id[p]

C33_YieldChangesNothing ==
    [][\A p \in Procs : C33_YieldStep(p) =>
            /\ flag_dir' = flag_dir
            /\ lock_line' = lock_line
            /\ output_files' = output_files
            /\ cwd'[p] = cwd[p]
            /\ stdout'[p] = stdout[p]
            /\ pc'[p] = "run_loop"
            /\ outcome'[p] = "LockContention"
            /\ task_count'[p] = task_count[p]]_vars

\* a process has yielded task 0 while the .incp file and the output file of
\* an earlier attempt and the other process's .lock file are there
C33_Witness ==
    \E p \in Procs, ph \in Phases :
        /\ pc[p] = "run_loop"
        /\ outcome[p] = "LockContention"
        /\ task_index[p] = 0
        /\ phase(p) = ph
        /\ {<<0, ph, "incp">>, <<0, ph, "lock">>} \subseteq flag_dir
        /\ <<0, ph>> \in output_files

(***************************************************************************)
(* C34, as claimed: when two batch-mode run loops, separate jobs or workers *)
(* of one job, have both written the lock file of a (task, phase) before   *)
(* either reads it back, get_lock returns True to one of them and False to *)
(* the other: the process that reads back second is not given the lock     *)
(* that the first was given.                                               *)
(***************************************************************************)
\* p is past the re-read of get_lock with the lock of its task
C34_HasLock(p) ==
    /\ mode(p) \in {kRun, kOffline}
    /\ pc[p] \in {"get_lock_extend", "get_lock_incp", "get_lock_remove", "in_handler"}

\* get_lock returns True to q (its re-read matches) while p, which read the
\* same lock file back when q had already written it, has the lock
C34_SecondTrue(q, p) ==
    /\ p # q
    /\ mode(q) \in {kRun, kOffline}
    /\ pc[q] = "get_lock_check" /\ pc'[q] = "get_lock_extend"
    /\ C34_HasLock(p)
    /\ q \in contenders[p]
    /\ task_index[p] = task_index[q] /\ phase(p) = phase(q)

C34_ClashDetected == [][\A p, q \in Procs : ~C34_SecondTrue(q, p)]_vars

(***************************************************************************)
(* C35: no orphaned lock from mutual yielding.  Among batch-mode processes *)
(* with distinct job ids: whenever get_lock returns False to a process for *)
(* a (task, phase), either a get_lock that returned True has extended the  *)
(* lock file since the yielding process wrote it, or another process that  *)
(* wrote the lock file last is still inside get_lock and will find its own *)
(* id; and a lock file of a task that nobody has extended (the job id      *)
(* alone, get_lock has returned True to nobody since it was written) is    *)
(* never left without the process that wrote it.                           *)
(***************************************************************************)
\* the first line of a lock file after "write expanded lock contents" (or the
\* append of finalize_lock): it ends with a newline
C35_Extended(line) == line # <<>> /\ line[Len(line)] = "\n"

\* q is inside get_lock for the key k, before "write expanded lock contents",
\* and the lock file holds its id alone
C35_WillHold(q, k) ==
    /\ mode(q) \in {kRun, kOffline}
    /\ task_index[q] = k[1] /\ phase(q) = k[2]
    /\ pc[q] \in {"get_lock_check", "get_lock_extend"}
    /\ lock_line[k] = job_id[q]

\* the step of p on which get_lock returns False to it for the key k
C35_YieldStep(p, k) ==
    /\ mode(p) \in {kRun, kOffline}
    /\ k = <<task_index[p], phase(p)>>
    /\ pc[p] = "get_lock_check" /\ pc'[p] = "run_loop"
    /\ outcome'[p] = "LockContention"

C36_RunModeOnly ==
    /\ invocations = Cardinality({ q \in Procs : exit[q] # <<"none", "">> })
    /\ \A q \in Procs : exit[q] # <<"none", "">> => mode(q) = kRun

C36_CompletedNotRedone ==
    [][C36_RunModeOnly =>
        \A k \in TaskIndices \X Phases :
            <<k[1], k[2], "done">> \in flag_dir =>
                /\ \A e \in {"lock", "fail"} :
                        <<k[1], k[2], e>> \in flag_dir' => <<k[1], k[2], e>> \in flag_dir
                /\ \A p \in Procs :
                        (pc'[p] = "in_handler" /\ pc[p] # "in_handler")
                            => <<task_index[p], phase(p)>> # k]_vars

(***************************************************************************)
(* C37, as claimed: an Unlock during a live run does not lose the outcome. *)
(* Where the one invocation beside a Run-mode process is an Unlock (so     *)
(* only its os.remove can have taken the lock file away), the step that    *)
(* follows the end of the handler records the outcome, .done after a       *)
(* return, .fail after an exception and .incp after InsufficientTime, and  *)
(* raises no FileNotFoundError.                                            *)
(***************************************************************************)
\* p runs in Run mode; every other process either has not been invoked or was
\* invoked once, in Unlock mode
C37_UnlockBeside(p) ==
    /\ mode(p) = kRun
    /\ invocations = Cardinality({ q \in Procs : exit[q] # <<"none", "">> })
    /\ \A q \in Procs \ {p} : exit[q] # <<"none", "">> => mode(q) = kUnlock

\* the flag that the step of p at its pc is to leave behind
C37_Flag(p) ==
    <<task_index[p], phase(p),
      CASE pc[p] = "finalize_rename" -> "done"
        [] pc[p] = "fail_lock" -> "fail"
        [] OTHER -> "incp">>

C37_OutcomeRecorded ==
    [][\A p \in Procs :
            (/\ C37_UnlockBeside(p)
             /\ pc[p] \in {"finalize_rename", "fail_lock", "incomplete_lock"}
             /\ pc'[p] # pc[p])
                => /\ C37_Flag(p) \in flag_dir'
                   /\ exit'[p][1] # "FileNotFoundError"]_vars

(***************************************************************************)
(* C38, as claimed: a Run, Offline or Prerun invocation ends after at most *)
(* len(task_list) calls of seek_task.                                      *)
(***************************************************************************)
\* the step of p on which its loop calls seek_task
C38_SeekStep(p) ==
    /\ mode(p) \in {kRun, kOffline, kPrerun}
    /\ \/ pc[p] = "run_loop" /\ within_count_limit(params[p].count_limit, task_count[p])
       \/ pc[p] = "prerun_loop"
    /\ pc'[p] # pc[p]

C38_AtMostLenSeeks ==
    [][\A p \in Procs : C38_SeekStep(p) => seek_calls[p] + 1 <= NumTasks]_vars

(***************************************************************************)
(* C38, amended: the run loops terminate.  Whatever the other processes do *)
(* to the flag files, every seek_task call of a Run, Offline or Prerun     *)
(* invocation that returns a task returns an index above the one before,   *)
(* every step of the invocation moves it on within the iteration of its    *)
(* task or ends it, and the invocation makes at most len(task_list) + 1    *)
(* calls of seek_task (the last one is the call that returns None).        *)
(***************************************************************************)
\* how far the iteration of a task has come
C38_Stage(label) ==
    CASE label = "get_lock" -> 1
      [] label = "get_lock_check" -> 2
      [] label = "get_lock_extend" -> 3
      [] label = "get_lock_incp" -> 4
      [] label = "get_lock_remove" -> 5
      [] label = "in_handler" -> 6
      [] label \in {"finalize_lock", "fail_lock", "incomplete_lock"} -> 7
      [] label = "finalize_rename" -> 8
      [] OTHER -> 9

\* how far the loop of p has come: the task of its iteration, then the stage
\* (the top of the loop counts as the end of the iteration before)
C38_Measure(idx, label) == (idx + 1) * 10 + C38_Stage(label)

C38_InLoop(p) == mode(p) \in {kRun, kOffline, kPrerun} /\ pc[p] # "idle"

C38_LoopsTerminate ==
    /\ [](\A p \in Procs : C38_InLoop(p) =>
            /\ task_index[p] \in -1..(NumTasks - 1)
            /\ seek_calls[p] <= NumTasks)
    /\ [][\A p \in Procs : C38_SeekStep(p) =>
            /\ seek_calls[p] + 1 <= NumTasks + 1
            /\ pc'[p] # "idle" => /\ task_index'[p] > task_index[p]
                                  /\ seek_calls'[p] = seek_calls[p] + 1]_vars
    /\ [][\A p \in Procs : (C38_InLoop(p) /\ pc'[p] # pc[p] /\ pc'[p] # "idle") =>
            C38_Measure(task_index'[p], pc'[p]) > C38_Measure(task_index[p], pc[p])]_vars

\* a loop that has found every task of the list is about to call seek_task
\* once more
C38_Witness ==
    \E p \in Procs :
        /\ mode(p) = kRun /\ pc[p] = "run_loop"
        /\ within_count_limit(params[p].count_limit, task_count[p])
        /\ seek_calls[p] = NumTasks

(***************************************************************************)
(* C39: timer start/stop pairing in the run loop.  At the top of the loop  *)
(* the timer of a Run or Offline invocation is not running and inside      *)
(* do_task it is running, so that start_timer, stop_timer and cancel_timer *)
(* never raise RuntimeError; the start leaves the history alone, the stop  *)
(* after a completed task appends exactly one duration and counts the      *)
(* task, the cancel after a lock contention leaves history and count       *)
(* alone; and the number of recorded durations equals the task count.      *)
(***************************************************************************)
C39_InRunLoop(p) == mode(p) \in {kRun, kOffline} /\ pc[p] # "idle"

C39_TimerPairing ==
    /\ [](\A p \in Procs :
            /\ C39_InRunLoop(p) =>
                /\ (timer[p].task_start_time = None) <=> (pc[p] = "run_loop")
                /\ Len(timer[p].timings) = task_count[p]
            /\ exit[p][1] # "RuntimeError")
    /\ [][\A p \in Procs : (C39_InRunLoop(p) /\ pc'[p] # pc[p] /\ pc'[p] # "idle") =>
            \* start_timer
            /\ pc[p] = "run_loop" =>
                    /\ timer'[p].timings = timer[p].timings
                    /\ task_count'[p] = task_count[p]
            \* cancel_timer
            /\ (pc'[p] = "run_loop" /\ pc[p] # "finalize_rename") =>
                    /\ outcome'[p] = "LockContention"
                    /\ timer'[p].timings = timer[p].timings
                    /\ task_count'[p] = task_count[p]
            \* stop_timer
            /\ (pc'[p] = "run_loop" /\ pc[p] = "finalize_rename") =>
                    /\ Len(timer'[p].timings) = Len(timer[p].timings) + 1
                    /\ SubSeq(timer'[p].timings, 1, Len(timer[p].timings)) = timer[p].timings
                    /\ task_count'[p] = task_count[p] + 1
            \* inside do_task
            /\ (pc[p] # "run_loop" /\ pc'[p] # "run_loop") => timer'[p] = timer[p]]_vars

\* a loop that has completed one task and yielded another is back at its top
C39_Witness ==
    \E p \in Procs :
        /\ mode(p) = kRun /\ pc[p] = "run_loop"
        /\ outcome[p] = "LockContention"
        /\ task_count[p] = 1
        /\ Len(timer[p].timings) = 1

(***************************************************************************)
(* C40, as claimed: the requeue chain terminates.  When a job submitted    *)
(* with an AccumulatedTime tag in its comment is requeued after a run that *)
(* took some time, the accumulated walltime that the next run reads from   *)
(* the comment at start-up is larger than the one this run read, and the   *)
(* time limit of the requeued job is smaller than a limit that covered the *)
(* time left before this run.                                              *)
(***************************************************************************)
\* the step is a termination that requeues the job
C40_RequeueStep == slurm.pc = "running" /\ slurm'.pc = "queued"

\* config.init: the accumulated walltime it reads from the comment c, seconds
C40_ReadBack(c) == 60 * accumulated_minutes(c)

C40_ChainShrinks ==
    [][(/\ C40_RequeueStep
        /\ accumulated_minutes(slurm.job.comment) # None
        /\ slurm.run.elapsed > 0)
            => /\ C40_ReadBack(slurm'.job.comment) > C40_ReadBack(slurm.job.comment)
               /\ 60 * slurm'.job.time_limit
                    < slurm.run.submission_wall_time_sec - C40_ReadBack(slurm.job.comment)]_vars

====
